---- MODULE Spec2Model ----
(***************************************************************************)
(* appgarden: the port registry (ports.json), the application registry    *)
(* (garden.json), the generated Caddy routing files and the deploy /    *)
(* remove / redeploy operations that client invocations run against one    *)
(* remote host.                                                            *)
(*                                                                         *)
(* The specifications share the variables:                                 *)
(*   SpecPorts  sequences of the pure helpers _allocate_port,              *)
(*              _release_port, _register_port on one registry value;       *)
(*   Spec       independent client invocations whose remote reads and      *)
(*              writes interleave;                                         *)
(*   SpecSeq    the same operations, one invocation at a time;             *)
(*   SpecStore  reads and writes of one state document by two clients,     *)
(*              plain and locked; SpecStoreLive adds fairness;             *)
(*   SpecTunnel tunnel open / close / cleanup against one host;            *)
(*   SpecClose  the tunnel operations on a host with a deployed            *)
(*              application;                                               *)
(*   SpecRouting either the operations of SpecSeq or those of SpecTunnel;  *)
(*   SpecStatus one client that initialises the server, stops             *)
(*              applications and asks for status;                          *)
(*   SpecUrl    parse_url applied to the URLs of a small alphabet;         *)
(*   SpecCascade resolve_environment and _resolve_deploy_params applied    *)
(*              to small configurations.                                   *)
(***************************************************************************)
EXTENDS Integers, Sequences, FiniteSets, TLC

VARIABLES
    ports,      \* content of ports.json: [next_port, allocated]
    garden,     \* content of garden.json "apps": function name -> record
    caddy,      \* routing directory: function file path -> content
    units,      \* systemd units: function name -> [installed, enabled, active]
    pc,         \* per client: position inside the running operation
    op,         \* per client: the operation and its arguments
    loc,        \* per client: local variables of the running operation
    ran,        \* per client: remote steps attempted so far, in order
    err,        \* per client: the step whose failure aborted the operation
    swallowed,  \* per client: steps whose failure was caught and ignored
    budget,     \* [ops, fails]: operations / remote failures still allowed
    relStarted, \* names for which some client has started release_port
    anyFailed,  \* some operation has aborted since the initial state
    last,       \* SpecPorts: the most recent helper call and its outcome
    issued,     \* SpecPorts: ports handed out so far
    call,       \* pure functions: the call made, its arguments, its result
    fs,         \* SpecStore: the state document and its .tmp file
    lock,       \* SpecStore: holder of the flock on .appgarden.lock (0: free)
    sc,         \* SpecStore: per client, the running state-store call
    docKind,    \* SpecStore: which state document the behaviour is about
    sops,       \* SpecStore: state-store calls started so far
    tunnels,    \* content of tunnels/active.json: function id -> record
    tfiles,     \* ids whose routing file exists in caddy/tunnels
    listening,  \* ids whose ssh reverse tunnel listens on its remote port
    tp,         \* per tunnel id: the open_tunnel invocation
    cl,         \* the running _cleanup_tunnel call
    adm,        \* the running close_tunnel / cleanup_stale_tunnels call
    tbud        \* [ops, fails]: administrative calls started, failures

vars == <<ports, garden, caddy, units, pc, op, loc, ran, err, swallowed,
          budget, relStarted, anyFailed, last, issued, call,
          fs, lock, sc, docKind, sops,
          tunnels, tfiles, listening, tp, cl, adm, tbud>>

clientVars == <<garden, caddy, units, pc, op, loc, ran, err, swallowed,
                budget, relStarted, anyFailed>>
histVars == <<last, issued, call>>
storeVars == <<fs, lock, sc, docKind, sops>>
tunnelVars == <<tunnels, tfiles, listening, tp, cl, adm, tbud>>

----------------------------------------------------------------------------
(* Bounds *)

MaxAllocs == 3      \* SpecPorts: allocations before next_port is capped
MaxOps == 2         \* Spec: operations started in one behaviour
MaxOpsSeq == 2      \* SpecSeq: operations started in one behaviour
MaxRoutingOps == 1  \* SpecRouting: client operations
MaxFails == 1       \* remote command failures in one behaviour

----------------------------------------------------------------------------
(* Port registry: pure helpers (02_ports) *)

PORT_RANGE_START == 10000

\* Python's None for an optional port.
NoPort == 0

\* ports["allocated"] is a dict keyed by str(port); it is kept here as the
\* sequence of its items in insertion order, which is the order the helpers
\* iterate in.  str() is one-to-one on ints, so the key is kept as the int.
empty_ports_state == [next_port |-> PORT_RANGE_START, allocated |-> <<>>]

HasKey(alloc, p) == \E i \in 1..Len(alloc) : alloc[i].port = p

\* alloc[str(p)] = n : an existing key keeps its position.
DictSet(alloc, p, n) ==
    IF HasKey(alloc, p)
       THEN [i \in 1..Len(alloc) |->
                IF alloc[i].port = p THEN [port |-> p, name |-> n] ELSE alloc[i]]
       ELSE Append(alloc, [port |-> p, name |-> n])

\* del alloc[key of item i]
DictDel(alloc, i) == SubSeq(alloc, 1, i - 1) \o SubSeq(alloc, i + 1, Len(alloc))

\* Index of the first item whose value is app, 0 when there is none.
FirstOwned(alloc, app) ==
    IF \E i \in 1..Len(alloc) : alloc[i].name = app
       THEN CHOOSE i \in 1..Len(alloc) :
                /\ alloc[i].name = app
                /\ \A j \in 1..(i - 1) : alloc[j].name # app
       ELSE 0

\* A variant of _allocate_port that hands out the lowest free port number.
AllocatePortReuse(p, app) ==
    IF FirstOwned(p.allocated, app) # 0
       THEN [ok |-> FALSE, ports |-> p, port |-> NoPort]
       ELSE LET free == CHOOSE q \in PORT_RANGE_START..p.next_port :
                           /\ ~HasKey(p.allocated, q)
                           /\ \A r \in PORT_RANGE_START..(q - 1) : HasKey(p.allocated, r)
            IN [ok |-> TRUE,
                ports |-> [next_port |-> IF free = p.next_port THEN free + 1 ELSE p.next_port,
                           allocated |-> DictSet(p.allocated, free, app)],
                port |-> free]

\* A variant of _allocate_port that does not advance the counter.
AllocatePortKeep(p, app) ==
    IF FirstOwned(p.allocated, app) # 0
       THEN [ok |-> FALSE, ports |-> p, port |-> NoPort]
       ELSE [ok |-> TRUE,
             ports |-> [p EXCEPT !.allocated = DictSet(p.allocated, p.next_port, app)],
             port |-> p.next_port]

\* _allocate_port: ValueError when app already owns a port, else next_port.
AllocatePort(p, app) ==
    IF FirstOwned(p.allocated, app) # 0
       THEN [ok |-> FALSE, ports |-> p, port |-> NoPort]
       ELSE [ok |-> TRUE,
             ports |-> [next_port |-> p.next_port + 1,
                        allocated |-> DictSet(p.allocated, p.next_port, app)],
             port |-> p.next_port]

\* A variant of _release_port that deletes every item owned by app.
ReleasePortAll(p, app) ==
    IF FirstOwned(p.allocated, app) = 0
       THEN [ok |-> FALSE, ports |-> p]
       ELSE [ok |-> TRUE,
             ports |-> [p EXCEPT !.allocated =
                           SelectSeq(p.allocated, LAMBDA e : e.name # app)]]

\* _release_port: deletes the first item owned by app, ValueError when none.
ReleasePort(p, app) ==
    LET i == FirstOwned(p.allocated, app)
    IN IF i = 0
          THEN [ok |-> FALSE, ports |-> p]
          ELSE [ok |-> TRUE,
                ports |-> [p EXCEPT !.allocated = DictDel(p.allocated, i)]]

\* A variant of _register_port that always moves the counter behind port.
RegisterPortRewind(p, port, app) ==
    IF HasKey(p.allocated, port)
       THEN [ok |-> FALSE, ports |-> p]
       ELSE [ok |-> TRUE,
             ports |-> [next_port |-> port + 1,
                        allocated |-> DictSet(p.allocated, port, app)]]

\* _register_port: ValueError when the port key is present, whoever owns it.
RegisterPort(p, port, app) ==
    IF HasKey(p.allocated, port)
       THEN [ok |-> FALSE, ports |-> p]
       ELSE [ok |-> TRUE,
             ports |-> [next_port |-> IF port >= p.next_port THEN port + 1
                                                            ELSE p.next_port,
                        allocated |-> DictSet(p.allocated, port, app)]]


OwnedPorts(p, app) ==
    {p.allocated[i].port : i \in {j \in 1..Len(p.allocated) : p.allocated[j].name = app}}

Keys(p) == {p.allocated[i].port : i \in 1..Len(p.allocated)}

\* The record of a helper call in SpecPorts: the helper, its arguments,
\* whether it returned (ok) or raised, and the port it returned.
NoCall == [op |-> "none", app |-> "", arg |-> NoPort, ok |-> TRUE, port |-> NoPort]

\* No pure function has been called.
NoPure == [fn |-> "none"]

----------------------------------------------------------------------------
(* Routing: parse_url and the Caddy files (03_routing) *)

\* A URL is the sequence of its characters.
HTTPS == <<"h", "t", "t", "p", "s", ":", "/", "/">>
HTTP == <<"h", "t", "t", "p", ":", "/", "/">>

StartsWith(s, pre) == Len(s) >= Len(pre) /\ SubSeq(s, 1, Len(pre)) = pre

RECURSIVE LStrip(_, _)
LStrip(s, ch) == IF s # <<>> /\ Head(s) = ch THEN LStrip(Tail(s), ch) ELSE s

RECURSIVE RStrip(_, _)
RStrip(s, ch) ==
    IF s # <<>> /\ s[Len(s)] = ch THEN RStrip(SubSeq(s, 1, Len(s) - 1), ch) ELSE s

FirstIndex(s, ch) ==
    IF \E i \in 1..Len(s) : s[i] = ch
       THEN CHOOSE i \in 1..Len(s) : s[i] = ch /\ \A j \in 1..(i - 1) : s[j] # ch
       ELSE 0

\* A variant of parse_url that keeps only the first segment of the path.
parse_url_first_segment(url) ==
    LET u1 == RStrip(LStrip(url, " "), " ")
        u2 == IF StartsWith(u1, HTTPS) THEN SubSeq(u1, Len(HTTPS) + 1, Len(u1))
              ELSE IF StartsWith(u1, HTTP) THEN SubSeq(u1, Len(HTTP) + 1, Len(u1))
              ELSE u1
        u3 == RStrip(u2, "/")
        k == FirstIndex(u3, "/")
        rest == SubSeq(u3, k + 1, Len(u3))
        m == FirstIndex(rest, "/")
    IN IF k # 0
          THEN [domain |-> SubSeq(u3, 1, k - 1), has_path |-> TRUE,
                path |-> IF m = 0 THEN rest ELSE SubSeq(rest, 1, m - 1)]
          ELSE [domain |-> u3, has_path |-> FALSE, path |-> <<>>]

\* parse_url: (domain, path) with path None for subdomain routing.  The
\* result is [domain, has_path, path]; has_path is "path is not None".
parse_url(url) ==
    LET u1 == RStrip(LStrip(url, " "), " ")
        u2 == IF StartsWith(u1, HTTPS) THEN SubSeq(u1, Len(HTTPS) + 1, Len(u1))
              ELSE IF StartsWith(u1, HTTP) THEN SubSeq(u1, Len(HTTP) + 1, Len(u1))
              ELSE u1
        u3 == RStrip(u2, "/")
        k == FirstIndex(u3, "/")
    IN IF k # 0
          THEN [domain |-> SubSeq(u3, 1, k - 1), has_path |-> TRUE,
                path |-> SubSeq(u3, k + 1, Len(u3))]
          ELSE [domain |-> u3, has_path |-> FALSE, path |-> <<>>]

\* _domain_caddy_file_path: the file name is the domain with "." -> "_".
\* Application files (_caddy_file_path) are keyed by the application name;
\* the two kinds of file are kept in two maps of the variable caddy.
safe_domain(domain) ==
    [i \in 1..Len(domain) |-> IF domain[i] = "." THEN "_" ELSE domain[i]]

\* _collect_subdirectory_apps: the dicts handed to the merged template.
\* The template text is not modelled: a file's content is the data rendered.
CollectSubdirectoryApps(g, domain) ==
    {[name |-> n, path |-> parse_url(g[n].url).path,
      port |-> g[n].port, method |-> g[n].method] :
        n \in {m \in DOMAIN g : /\ parse_url(g[m].url).domain = domain
                                /\ parse_url(g[m].url).has_path}}

\* Dict helpers for garden["apps"] and the file maps.
Put(f, k, v) == [x \in DOMAIN f \cup {k} |-> IF x = k THEN v ELSE f[x]]
Del(f, k) == [x \in DOMAIN f \ {k} |-> f[x]]
EmptyMap == [x \in {} |-> 0]

\* deploy_caddy_config: the file written for app_name.
DeployCaddy(files, g, app_name, url, port, method) ==
    LET u == parse_url(url)
        found == CollectSubdirectoryApps(g, u.domain)
        apps == IF \E e \in found : e.name = app_name
                   THEN found
                   ELSE found \cup {[name |-> app_name, path |-> u.path,
                                     port |-> port, method |-> method]}
    IN IF u.has_path
          THEN [files EXCEPT !.subdir =
                   Put(@, safe_domain(u.domain), [domain |-> u.domain, apps |-> apps])]
          ELSE [files EXCEPT !.app =
                   Put(@, app_name,
                       [kind |-> IF method = "static" THEN "static" ELSE "proxy",
                        domain |-> u.domain, port |-> port])]

\* remove_caddy_config: regenerate the merged file without app_name, or
\* delete the file.
RemoveCaddy(files, g, app_name, url) ==
    LET u == parse_url(url)
        apps == {e \in CollectSubdirectoryApps(g, u.domain) : e.name # app_name}
    IN IF u.has_path
          THEN IF apps # {}
                  THEN [files EXCEPT !.subdir =
                           Put(@, safe_domain(u.domain),
                               [domain |-> u.domain, apps |-> apps])]
                  ELSE [files EXCEPT !.subdir = Del(@, safe_domain(u.domain))]
          ELSE [files EXCEPT !.app = Del(@, app_name)]

\* An operation that goes on after a change of a routing file without
\* reloading the reverse proxy.
ReloadSkipped(s) ==
    CASE s = "d_caddy_write" -> "d_register"
      [] s = "r_caddy" -> "r_garden_write"
      [] s = "o_caddy_write" -> "o_reg_read"
      [] OTHER -> "c_rel_read"

\* The statement after the write or the deletion of a routing file is the
\* reload of the reverse proxy: run_remote_command("systemctl reload caddy")
\* in deploy_caddy_config and remove_caddy_config, privileged_systemctl(
\* "reload", "caddy") in _deploy_tunnel_caddy and _remove_tunnel_caddy.
ReloadAfter(s) ==
    CASE s = "d_caddy_write" -> "d_caddy_reload"
      [] s = "r_caddy" -> "r_caddy_reload"
      [] s = "o_caddy_write" -> "o_caddy_reload"
      [] OTHER -> "c_reload"

----------------------------------------------------------------------------
(* State documents and the remote lock (01_remote, 09_tunnel) *)

MaxStoreOps == 2    \* SpecStore: state-store calls started in one behaviour

\* flock -w 10: seconds a locked call waits for the lock.
LOCK_TIMEOUT == 10

StoreClients == {1, 2}
\* A holder of the lock that is not a state-store call of a client.
External == 3

DocKinds == {"garden", "ports", "tunnels"}

\* The value of a document: 0 is the empty document of its shape
\* ({"apps": {}}, empty_ports_state(), {"tunnels": {}}).
EmptyDoc == 0
WriteVals == {1, 2}

\* A file is absent, or present with the chunks written to it so far.
Missing == [present |-> FALSE, chunks |-> <<>>]
\* A chunk position no write has filled.
Hole == 0 - 1

\* json.dumps: the text of value v, uploaded in two chunks.
Dumps(v) == <<v, v>>
FileOf(v) == [present |-> TRUE, chunks |-> Dumps(v)]

\* json.loads: only a completely written text of one value parses.
Loads(chunks) ==
    IF Len(chunks) = 2 /\ chunks[1] = chunks[2] /\ chunks[1] # Hole
       THEN [ok |-> TRUE, val |-> chunks[1]]
       ELSE [ok |-> FALSE, val |-> EmptyDoc]

\* put_file: the upload opens the remote file for writing (truncating it) ...
Truncate(f) == [present |-> TRUE, chunks |-> <<>>]
\* ... and writes chunk i of the text at its offset.
WriteAt(f, i, v) ==
    [present |-> TRUE,
     chunks |-> [j \in 1..(IF Len(f.chunks) > i THEN Len(f.chunks) ELSE i) |->
                    IF j = i THEN v
                    ELSE IF j <= Len(f.chunks) THEN f.chunks[j] ELSE Hole]]

\* read_garden_state / read_ports_state / _read_tunnels_state on content f.
ReadDoc(kind, f) ==
    LET r == Loads(f.chunks)
    IN IF kind = "tunnels"
          THEN IF f.present /\ r.ok THEN [status |-> "ok", val |-> r.val]
                                    ELSE [status |-> "ok", val |-> EmptyDoc]
          ELSE IF ~f.present THEN [status |-> "read_failed", val |-> EmptyDoc]
               ELSE IF ~r.ok THEN [status |-> "corrupted", val |-> EmptyDoc]
               ELSE [status |-> "ok", val |-> r.val]

\* read_*_state_locked: flock ... cat path, then json.loads.
ReadDocLocked(f) ==
    LET r == Loads(f.chunks)
    IN IF ~f.present THEN [status |-> "command_failed", val |-> EmptyDoc]
       ELSE IF ~r.ok THEN [status |-> "corrupted", val |-> EmptyDoc]
       ELSE [status |-> "ok", val |-> r.val]

\* The path write_*_state_locked uploads to before the mv: f"{path}.tmp".
TmpPathInPlace == "doc"
TmpPath == "tmp"

\* The path a write uploads to: the document itself for write_*_state and
\* _write_tunnels_state, the .tmp file for write_*_state_locked.
UploadPath(o) == IF o = "write_locked" THEN TmpPath ELSE "doc"

StoreOps == {"read", "write", "read_locked", "write_locked"}
NoRes == [status |-> "none", val |-> EmptyDoc]
IdleCall == [pc |-> "idle", op |-> "none", val |-> EmptyDoc, waited |-> 0,
             res |-> NoRes, saw |-> Missing, touched |-> FALSE]

StoreIdle ==
    /\ fs = [doc |-> FileOf(EmptyDoc), tmp |-> Missing]
    /\ lock = 0
    /\ sc = [c \in StoreClients |-> IdleCall]
    /\ docKind = "garden"
    /\ sops = 0

StoreFrame == UNCHANGED <<ports, clientVars, histVars, tunnelVars, docKind>>

\* A client calls one of the state-store functions.  Only garden.json and
\* ports.json have locked variants.
SCall(c, o, v) ==
    /\ sc[c].pc \in {"idle", "done"}
    /\ sops < MaxStoreOps
    /\ o \in {"read_locked", "write_locked"} => docKind # "tunnels"
    /\ sops' = sops + 1
    /\ sc' = [sc EXCEPT ![c] =
                 [IdleCall EXCEPT !.op = o, !.val = v,
                     !.pc = CASE o = "read" -> "get"
                              [] o = "read_locked" -> "wait"
                              [] OTHER -> "put_open"]]
    /\ UNCHANGED <<fs, lock>>
    /\ StoreFrame

\* read_*_state: read_remote_file and json.loads.
SRead(c) ==
    /\ sc[c].pc = "get"
    /\ sc' = [sc EXCEPT ![c].pc = "done", ![c].saw = fs.doc,
                        ![c].res = ReadDoc(docKind, fs.doc)]
    /\ UNCHANGED <<fs, lock, sops>>
    /\ StoreFrame

\* write_remote_file: the upload opens its target.
SPutOpen(c) ==
    /\ sc[c].pc = "put_open"
    /\ LET path == UploadPath(sc[c].op)
       IN /\ fs' = [fs EXCEPT ![path] = Truncate(@)]
          /\ sc' = [sc EXCEPT ![c].pc = "put_1",
                              ![c].touched = @ \/ path = "doc"]
    /\ UNCHANGED <<lock, sops>>
    /\ StoreFrame

\* write_remote_file: the upload writes the next chunk; after the last one
\* write_*_state returns and write_*_state_locked goes on to the flock.
SPutChunk(c) ==
    /\ sc[c].pc \in {"put_1", "put_2"}
    /\ LET path == UploadPath(sc[c].op)
           i == IF sc[c].pc = "put_1" THEN 1 ELSE 2
       IN /\ fs' = [fs EXCEPT ![path] = WriteAt(@, i, sc[c].val)]
          /\ sc' = [sc EXCEPT
                       ![c].pc = IF i = 1 THEN "put_2"
                                 ELSE IF sc[c].op = "write_locked" THEN "wait"
                                 ELSE "done",
                       ![c].res = IF i = 2 /\ sc[c].op = "write"
                                     THEN [status |-> "ok", val |-> sc[c].val]
                                     ELSE @,
                       ![c].touched = @ \/ path = "doc"]
    /\ UNCHANGED <<lock, sops>>
    /\ StoreFrame

\* flock obtains the lock before its timeout has passed.
SAcquire(c) ==
    /\ sc[c].pc = "wait"
    /\ lock = 0
    /\ sc[c].waited < LOCK_TIMEOUT
    /\ lock' = c
    /\ sc' = [sc EXCEPT ![c].pc = "locked"]
    /\ UNCHANGED <<fs, sops>>
    /\ StoreFrame

\* Under the lock: cat path (read) or mv tmp path (write); flock releases
\* the lock when the command exits.
SCommand(c) ==
    /\ sc[c].pc = "locked"
    /\ lock' = 0
    /\ IF sc[c].op = "read_locked"
          THEN /\ sc' = [sc EXCEPT ![c].pc = "done", ![c].saw = fs.doc,
                                   ![c].res = ReadDocLocked(fs.doc)]
               /\ UNCHANGED fs
          ELSE IF fs.tmp.present
                  THEN /\ fs' = [doc |-> fs.tmp, tmp |-> Missing]
                       /\ sc' = [sc EXCEPT ![c].pc = "done", ![c].touched = TRUE,
                                    ![c].res = [status |-> "ok", val |-> sc[c].val]]
                  ELSE /\ sc' = [sc EXCEPT ![c].pc = "done",
                                    ![c].res = [status |-> "command_failed",
                                                val |-> EmptyDoc]]
                       /\ UNCHANGED fs
    /\ UNCHANGED sops
    /\ StoreFrame

\* flock -w 10 gives up: non-zero exit, run_remote_command raises.
STimeout(c) ==
    /\ sc[c].pc = "wait"
    /\ sc[c].waited = LOCK_TIMEOUT
    /\ sc' = [sc EXCEPT ![c].pc = "done",
                        ![c].res = [status |-> "lock_timeout", val |-> EmptyDoc]]
    /\ UNCHANGED <<fs, lock, sops>>
    /\ StoreFrame

\* One second passes for every call waiting for the lock.
Tick ==
    /\ \E c \in StoreClients : sc[c].pc = "wait"
    /\ \A c \in StoreClients : sc[c].pc = "wait" => sc[c].waited < LOCK_TIMEOUT
    /\ sc' = [c \in StoreClients |->
                 IF sc[c].pc = "wait" THEN [sc[c] EXCEPT !.waited = @ + 1]
                 ELSE sc[c]]
    /\ UNCHANGED <<fs, lock, sops>>
    /\ StoreFrame

\* Another process takes the lock and keeps it for as long as it likes.
ExtAcquire ==
    /\ lock = 0
    /\ lock' = External
    /\ UNCHANGED <<fs, sc, sops>>
    /\ StoreFrame

ExtRelease ==
    /\ lock = External
    /\ lock' = 0
    /\ UNCHANGED <<fs, sc, sops>>
    /\ StoreFrame

StoreStep(c) ==
    \/ \E o \in {"read", "read_locked"} : SCall(c, o, EmptyDoc)
    \/ \E o \in {"write", "write_locked"}, v \in WriteVals : SCall(c, o, v)
    \/ SRead(c) \/ SPutOpen(c) \/ SPutChunk(c)
    \/ SAcquire(c) \/ SCommand(c) \/ STimeout(c)

NextStore ==
    \/ \E c \in StoreClients : StoreStep(c)
    \/ Tick
    \/ ExtAcquire
    \/ ExtRelease

----------------------------------------------------------------------------
(* Tunnels: open_tunnel, close_tunnel, cleanup_stale_tunnels (09_tunnel) *)

MaxTunnelOps == 2     \* SpecTunnel: close / cleanup_stale calls started
MaxTunnelFails == 1   \* SpecTunnel: remote failures in one behaviour

\* tunnel_id = f"tunnel-{uuid4().hex[:8]}": every open_tunnel has its own.
Tunnels == {"t1", "t2"}

TunnelUrl == <<"t", ".", "d">>

NoTunnel == [pc |-> "none", port |-> NoPort, snap |-> empty_ports_state,
             reg |-> EmptyMap, proc |-> "none", entered |-> FALSE,
             cleanups |-> 0, raising |-> FALSE]
NoCleanup == [pc |-> "idle", tid |-> "", by |-> "", ran |-> {}, swallowed |-> {},
              failed |-> "", exc |-> "", snap |-> empty_ports_state,
              reg |-> EmptyMap]
NoPre == [tunnels |-> EmptyMap, ports |-> empty_ports_state, tfiles |-> {}]
NoAdmin == [pc |-> "idle", op |-> "none", tid |-> "", todo |-> {}, cur |-> "",
            cleaned |-> {}, probe |-> EmptyMap, swallowed |-> {}, pre |-> NoPre]

TunnelsIdle ==
    /\ tunnels = EmptyMap
    /\ tfiles = {}
    /\ listening = {}
    /\ tp = [t \in Tunnels |-> NoTunnel]
    /\ cl = NoCleanup
    /\ adm = NoAdmin
    /\ tbud = [ops |-> 0, fails |-> 0]

TunnelFrame == UNCHANGED <<clientVars, histVars, storeVars>>

\* Outcomes of a remote command: it may fail while failures are allowed.
TOutcomes == IF tbud.fails < MaxTunnelFails THEN {TRUE, FALSE} ELSE {TRUE}
Spend(ok) == IF ok THEN tbud ELSE [tbud EXCEPT !.fails = @ + 1]

SetupPcs == {"o_ports_read", "o_ports_write", "o_caddy_write", "o_caddy_reload",
             "o_reg_read", "o_reg_write", "o_popen"}
ExitPcs == {"o_terminate", "o_cleanup", "o_cleaning"}

\* Some invocation is between two of its remote steps; invocations do not
\* overlap, a tunnel blocked in proc.wait() is not in the way.
Busy ==
    \/ cl.pc # "idle"
    \/ adm.pc \notin {"idle", "done", "raised"}
    \/ \E t \in Tunnels : tp[t].pc \in SetupPcs \cup ExitPcs

\* The sub-steps of _cleanup_tunnel, in order.
CleanupSubSteps == {"c_rm", "c_reload", "c_release", "c_unregister"}

\* A step of open_tunnel's set-up: on failure the exception leaves
\* open_tunnel (nothing of the set-up is inside a try block).
SetupStep(t, ok, nxt) ==
    /\ ok \in TOutcomes
    /\ tbud' = Spend(ok)
    /\ tp' = [tp EXCEPT ![t].pc = IF ok THEN nxt ELSE "raised"]

\* tunnel open: a new tunnel id.
OStart(t) ==
    /\ tp[t].pc = "none"
    /\ ~Busy
    /\ tp' = [tp EXCEPT ![t].pc = "o_ports_read"]
    /\ UNCHANGED <<ports, tunnels, tfiles, listening, cl, adm, tbud>>
    /\ TunnelFrame

\* allocate_port: read_ports_state and _allocate_port.
OPortsRead(t) ==
    /\ tp[t].pc = "o_ports_read"
    /\ \E ok \in TOutcomes :
          LET r == AllocatePort(ports, t)
          IN /\ tbud' = Spend(ok)
             /\ tp' = [tp EXCEPT ![t] =
                          IF ok /\ r.ok
                             THEN [@ EXCEPT !.pc = "o_ports_write",
                                            !.snap = r.ports, !.port = r.port]
                             ELSE [@ EXCEPT !.pc = "raised"]]
    /\ UNCHANGED <<ports, tunnels, tfiles, listening, cl, adm>>
    /\ TunnelFrame

\* allocate_port: write_ports_state.
OPortsWrite(t) ==
    /\ tp[t].pc = "o_ports_write"
    /\ \E ok \in BOOLEAN :
          /\ SetupStep(t, ok, "o_caddy_write")
          /\ ports' = IF ok THEN tp[t].snap ELSE ports
    /\ UNCHANGED <<tunnels, tfiles, listening, cl, adm>>
    /\ TunnelFrame

\* _deploy_tunnel_caddy: write the tunnel's routing file.
OCaddyWrite(t) ==
    /\ tp[t].pc = "o_caddy_write"
    /\ \E ok \in BOOLEAN :
          /\ SetupStep(t, ok, ReloadAfter("o_caddy_write"))
          /\ tfiles' = IF ok THEN tfiles \cup {t} ELSE tfiles
    /\ UNCHANGED <<ports, tunnels, listening, cl, adm>>
    /\ TunnelFrame

\* _deploy_tunnel_caddy: reload caddy.
OCaddyReload(t) ==
    /\ tp[t].pc = "o_caddy_reload"
    /\ \E ok \in BOOLEAN : SetupStep(t, ok, "o_reg_read")
    /\ UNCHANGED <<ports, tunnels, tfiles, listening, cl, adm>>
    /\ TunnelFrame

\* _read_tunnels_state: a read that fails (or does not parse) yields the
\* empty registry.
ReadTunnels(ok) == IF ok THEN tunnels ELSE EmptyMap

\* _register_tunnel: _read_tunnels_state.
ORegRead(t) ==
    /\ tp[t].pc = "o_reg_read"
    /\ \E ok \in TOutcomes :
          /\ tbud' = Spend(ok)
          /\ tp' = [tp EXCEPT ![t].pc = "o_reg_write", ![t].reg = ReadTunnels(ok)]
    /\ UNCHANGED <<ports, tunnels, tfiles, listening, cl, adm>>
    /\ TunnelFrame

TunnelEntry(t, port) == [url |-> TunnelUrl, remote_port |-> port]

\* _register_tunnel: _write_tunnels_state.
ORegWrite(t) ==
    /\ tp[t].pc = "o_reg_write"
    /\ \E ok \in BOOLEAN :
          /\ SetupStep(t, ok, "o_popen")
          /\ tunnels' = IF ok THEN Put(tp[t].reg, t, TunnelEntry(t, tp[t].port))
                              ELSE tunnels
    /\ UNCHANGED <<ports, tfiles, listening, cl, adm>>
    /\ TunnelFrame

\* subprocess.Popen(ssh -N -R ...): the process starts and open_tunnel
\* blocks in proc.wait(), or ssh is not found (proc stays None, the finally
\* block runs and RuntimeError is raised).
OPopen(t) ==
    /\ tp[t].pc = "o_popen"
    /\ \E ok \in BOOLEAN :
          IF ok THEN /\ tp' = [tp EXCEPT ![t].pc = "o_wait", ![t].proc = "alive",
                                         ![t].entered = TRUE]
                     /\ listening' = listening \cup {t}
                ELSE /\ tp' = [tp EXCEPT ![t].pc = "o_cleanup", ![t].raising = TRUE]
                     /\ UNCHANGED listening
    /\ UNCHANGED <<ports, tunnels, tfiles, cl, adm, tbud>>
    /\ TunnelFrame

\* Ctrl+C during proc.wait(): except KeyboardInterrupt, then finally with
\* the process still running.
OInterrupt(t) ==
    /\ tp[t].pc = "o_wait"
    /\ ~Busy
    /\ tp' = [tp EXCEPT ![t].pc = "o_terminate"]
    /\ UNCHANGED <<ports, tunnels, tfiles, listening, cl, adm, tbud>>
    /\ TunnelFrame

\* The ssh process ends by itself: proc.wait() returns, finally runs with
\* proc.poll() not None.
OProcExit(t) ==
    /\ tp[t].pc = "o_wait"
    /\ ~Busy
    /\ tp' = [tp EXCEPT ![t].pc = "o_cleanup", ![t].proc = "dead"]
    /\ listening' = listening \ {t}
    /\ UNCHANGED <<ports, tunnels, tfiles, cl, adm, tbud>>
    /\ TunnelFrame

\* Another exception is raised during proc.wait(): finally runs with the
\* process still running and the exception is re-raised after it.
OWaitError(t) ==
    /\ tp[t].pc = "o_wait"
    /\ ~Busy
    /\ tp' = [tp EXCEPT ![t].pc = "o_terminate", ![t].raising = TRUE]
    /\ UNCHANGED <<ports, tunnels, tfiles, listening, cl, adm, tbud>>
    /\ TunnelFrame

\* finally: proc.terminate(); proc.wait(timeout=5).  The process ends in
\* time, or wait raises TimeoutExpired and the rest of the finally block is
\* not executed.
OTerminate(t) ==
    /\ tp[t].pc = "o_terminate"
    /\ \E ended \in BOOLEAN :
          IF ended
             THEN /\ tp' = [tp EXCEPT ![t].pc = "o_cleanup", ![t].proc = "dead"]
                  /\ listening' = listening \ {t}
             ELSE /\ tp' = [tp EXCEPT ![t].pc = "raised", ![t].raising = TRUE]
                  /\ UNCHANGED listening
    /\ UNCHANGED <<ports, tunnels, tfiles, cl, adm, tbud>>
    /\ TunnelFrame

\* A call of _cleanup_tunnel(tunnel_id) by the invocation `by`.
StartCleanup(tid, by) == [NoCleanup EXCEPT !.pc = "c_connect", !.tid = tid, !.by = by]

\* finally: _cleanup_tunnel(server, tunnel_id, app_name).
OCleanup(t) ==
    /\ tp[t].pc = "o_cleanup"
    /\ cl.pc = "idle"
    /\ cl' = StartCleanup(t, t)
    /\ tp' = [tp EXCEPT ![t].pc = "o_cleaning", ![t].cleanups = @ + 1]
    /\ UNCHANGED <<ports, tunnels, tfiles, listening, adm, tbud>>
    /\ TunnelFrame

\* _cleanup_tunnel has returned or raised: open_tunnel returns or raises.
OCleanupReturn(t) ==
    /\ tp[t].pc = "o_cleaning"
    /\ cl.by = t /\ cl.pc \in {"c_done", "c_raised"}
    /\ tp' = [tp EXCEPT ![t].pc = IF cl.pc = "c_done" /\ ~tp[t].raising
                                     THEN "closed" ELSE "raised"]
    /\ cl' = NoCleanup
    /\ UNCHANGED <<ports, tunnels, tfiles, listening, adm, tbud>>
    /\ TunnelFrame

OpenStep(t) ==
    \/ OStart(t) \/ OPortsRead(t) \/ OPortsWrite(t) \/ OCaddyWrite(t)
    \/ OCaddyReload(t) \/ ORegRead(t) \/ ORegWrite(t) \/ OPopen(t)
    \/ OInterrupt(t) \/ OProcExit(t) \/ OWaitError(t) \/ OTerminate(t)
    \/ OCleanup(t) \/ OCleanupReturn(t)

\* A step of _cleanup_tunnel: s is recorded as run; a failure is recorded
\* as swallowed and the call goes on at nxt.
CleanupStep(s, ok, nxt) ==
    /\ ok \in TOutcomes
    /\ tbud' = Spend(ok)
    /\ cl' = [cl EXCEPT !.pc = nxt, !.ran = @ \cup {s},
                        !.swallowed = IF ok THEN @ ELSE @ \cup {s}]

\* with ssh_connect(server): ConnectionError when the host is unreachable.
CConnect ==
    /\ cl.pc = "c_connect"
    /\ \E ok \in TOutcomes :
          /\ tbud' = Spend(ok)
          /\ cl' = IF ok THEN [cl EXCEPT !.pc = "c_rm"]
                   ELSE [cl EXCEPT !.pc = "c_raised", !.failed = "c_connect",
                                   !.exc = "ConnectionError"]
    /\ UNCHANGED <<ports, tunnels, tfiles, listening, tp, adm>>
    /\ TunnelFrame

\* _remove_tunnel_caddy: rm -f of the routing file; a failure skips the
\* reload, which is inside the same try block.
CRm ==
    /\ cl.pc = "c_rm"
    /\ \E ok \in BOOLEAN :
          /\ CleanupStep("c_rm", ok, IF ok THEN ReloadAfter("c_rm") ELSE "c_rel_read")
          /\ tfiles' = IF ok THEN tfiles \ {cl.tid} ELSE tfiles
    /\ UNCHANGED <<ports, tunnels, listening, tp, adm>>
    /\ TunnelFrame

\* _remove_tunnel_caddy: reload caddy.
CReload ==
    /\ cl.pc = "c_reload"
    /\ \E ok \in BOOLEAN : CleanupStep("c_reload", ok, "c_rel_read")
    /\ UNCHANGED <<ports, tunnels, tfiles, listening, tp, adm>>
    /\ TunnelFrame

\* release_port: read_ports_state and _release_port; RuntimeError and
\* ValueError are caught by _cleanup_tunnel.
CRelRead ==
    /\ cl.pc = "c_rel_read"
    /\ \E ok \in TOutcomes :
          LET r == ReleasePort(ports, cl.tid)
          IN /\ tbud' = Spend(ok)
             /\ cl' = IF ok /\ r.ok
                         THEN [cl EXCEPT !.pc = "c_rel_write", !.snap = r.ports,
                                         !.ran = @ \cup {"c_release"}]
                         ELSE [cl EXCEPT !.pc = "c_unreg_read",
                                         !.ran = @ \cup {"c_release"},
                                         !.swallowed = @ \cup {"c_release"}]
    /\ UNCHANGED <<ports, tunnels, tfiles, listening, tp, adm>>
    /\ TunnelFrame

\* release_port: write_ports_state.
CRelWrite ==
    /\ cl.pc = "c_rel_write"
    /\ \E ok \in BOOLEAN :
          /\ CleanupStep("c_release", ok, "c_unreg_read")
          /\ ports' = IF ok THEN cl.snap ELSE ports
    /\ UNCHANGED <<tunnels, tfiles, listening, tp, adm>>
    /\ TunnelFrame

\* _unregister_tunnel: _read_tunnels_state.
CUnregRead ==
    /\ cl.pc = "c_unreg_read"
    /\ \E ok \in TOutcomes :
          /\ tbud' = Spend(ok)
          /\ cl' = [cl EXCEPT !.pc = "c_unreg_write", !.reg = ReadTunnels(ok),
                        !.swallowed = IF ok THEN @ ELSE @ \cup {"c_unregister"}]
    /\ UNCHANGED <<ports, tunnels, tfiles, listening, tp, adm>>
    /\ TunnelFrame

\* _unregister_tunnel: pop and _write_tunnels_state; a failing write raises
\* RuntimeError out of _cleanup_tunnel.
CUnregWrite ==
    /\ cl.pc = "c_unreg_write"
    /\ \E ok \in TOutcomes :
          /\ tbud' = Spend(ok)
          /\ cl' = IF ok THEN [cl EXCEPT !.pc = "c_done",
                                         !.ran = @ \cup {"c_unregister"}]
                   ELSE [cl EXCEPT !.pc = "c_raised", !.failed = "c_unregister",
                                   !.exc = "RuntimeError",
                                   !.ran = @ \cup {"c_unregister"}]
          /\ tunnels' = IF ok THEN Del(cl.reg, cl.tid) ELSE tunnels
    /\ UNCHANGED <<ports, tfiles, listening, tp, adm>>
    /\ TunnelFrame

CleanupNext ==
    \/ CConnect \/ CRm \/ CReload \/ CRelRead \/ CRelWrite
    \/ CUnregRead \/ CUnregWrite

\* The host as an administrative call finds it.
Pre == [tunnels |-> tunnels, ports |-> ports, tfiles |-> tfiles]

\* tunnel close <id>: close_tunnel calls _cleanup_tunnel with app_name =
\* tunnel_id; the id is any text, here a tunnel id or the name of a
\* deployed application.
AClose(t) ==
    /\ ~Busy
    /\ tbud.ops < MaxTunnelOps
    /\ tbud' = [tbud EXCEPT !.ops = @ + 1]
    /\ adm' = [NoAdmin EXCEPT !.pc = "a_close", !.op = "close", !.tid = t,
                              !.pre = Pre]
    /\ cl' = StartCleanup(t, "admin")
    /\ UNCHANGED <<ports, tunnels, tfiles, listening, tp>>
    /\ TunnelFrame

\* close_tunnel returns or raises what _cleanup_tunnel returned or raised.
ACloseReturn ==
    /\ adm.pc = "a_close"
    /\ cl.by = "admin" /\ cl.pc \in {"c_done", "c_raised"}
    /\ adm' = [adm EXCEPT !.pc = IF cl.pc = "c_done" THEN "done" ELSE "raised",
                          !.swallowed = cl.swallowed]
    /\ cl' = NoCleanup
    /\ UNCHANGED <<ports, tunnels, tfiles, listening, tp, tbud>>
    /\ TunnelFrame

\* tunnel cleanup: cleanup_stale_tunnels starts.
AStale ==
    /\ ~Busy
    /\ tbud.ops < MaxTunnelOps
    /\ tbud' = [tbud EXCEPT !.ops = @ + 1]
    /\ adm' = [NoAdmin EXCEPT !.pc = "a_read", !.op = "stale", !.pre = Pre]
    /\ UNCHANGED <<ports, tunnels, tfiles, listening, tp, cl>>
    /\ TunnelFrame

\* cleanup_stale_tunnels: _read_tunnels_state; the loop runs over the
\* tunnels of this snapshot.
AStaleRead ==
    /\ adm.pc = "a_read"
    /\ \E ok \in TOutcomes :
          /\ tbud' = Spend(ok)
          /\ adm' = [adm EXCEPT !.pc = "a_loop", !.todo = DOMAIN ReadTunnels(ok)]
    /\ UNCHANGED <<ports, tunnels, tfiles, listening, tp, cl>>
    /\ TunnelFrame

\* The listener probe of one tunnel: ss -tln | grep ':port ' reports active
\* when something listens on the remote port, inactive otherwise, or the
\* command fails.  Inactive and failure both call close_tunnel.
AProbe ==
    /\ adm.pc = "a_loop"
    /\ \E t \in adm.todo, ok \in TOutcomes :
          LET res == IF ~ok THEN "error"
                     ELSE IF t \in listening THEN "active" ELSE "inactive"
          IN /\ tbud' = Spend(ok)
             /\ adm' = [adm EXCEPT !.todo = @ \ {t}, !.cur = t,
                           !.probe = Put(@, t, res),
                           !.pc = CASE res = "active" -> "a_loop"
                                    [] res = "inactive" -> "a_try"
                                    [] OTHER -> "a_except"]
             /\ cl' = IF res = "active" THEN cl ELSE StartCleanup(t, "admin")
    /\ UNCHANGED <<ports, tunnels, tfiles, listening, tp>>
    /\ TunnelFrame

\* close_tunnel has returned: the id is appended to cleaned.  When it
\* raised RuntimeError inside the try block, the except branch calls
\* close_tunnel again; any other exception leaves cleanup_stale_tunnels.
AProbeClosed ==
    /\ adm.pc \in {"a_try", "a_except"}
    /\ cl.by = "admin" /\ cl.pc \in {"c_done", "c_raised"}
    /\ IF cl.pc = "c_done"
          THEN /\ adm' = [adm EXCEPT !.pc = "a_loop", !.cleaned = @ \cup {adm.cur},
                             !.swallowed = @ \cup cl.swallowed]
               /\ cl' = NoCleanup
          ELSE IF adm.pc = "a_try" /\ cl.exc = "RuntimeError"
                  THEN /\ adm' = [adm EXCEPT !.pc = "a_except",
                                     !.swallowed = @ \cup cl.swallowed \cup {cl.failed}]
                       /\ cl' = StartCleanup(adm.cur, "admin")
                  ELSE /\ adm' = [adm EXCEPT !.pc = "raised"]
                       /\ cl' = NoCleanup
    /\ UNCHANGED <<ports, tunnels, tfiles, listening, tp, tbud>>
    /\ TunnelFrame

\* cleanup_stale_tunnels: the loop is over, cleaned is returned.
AStaleReturn ==
    /\ adm.pc = "a_loop"
    /\ adm.todo = {}
    /\ adm' = [adm EXCEPT !.pc = "done"]
    /\ UNCHANGED <<ports, tunnels, tfiles, listening, tp, cl, tbud>>
    /\ TunnelFrame

AdminNext ==
    \/ \E t \in Tunnels \cup DOMAIN garden : AClose(t)
    \/ ACloseReturn
    \/ AStale \/ AStaleRead \/ AProbe \/ AProbeClosed \/ AStaleReturn

NextTunnel ==
    \/ \E t \in Tunnels : OpenStep(t)
    \/ CleanupNext
    \/ AdminNext

----------------------------------------------------------------------------
(* Client invocations: deploy, remove, redeploy (05_deploy, 06_apps) *)

Clients == {1, 2}
Names == {"a", "b"}
Methods == {"static", "command", "dockerfile"}

UrlSub == <<"x", ".", "d">>
UrlP == <<"d", ".", "c", "/", "p">>
UrlQ == <<"d", ".", "c", "/", "q">>
Urls == {UrlSub, UrlP, UrlQ}

\* A port the caller supplies explicitly (--port).
ExplicitPort == PORT_RANGE_START

DeployOps ==
    {o \in [kind : {"deploy"}, name : Names, method : Methods, url : Urls,
            port : {NoPort, ExplicitPort}] :
        o.method = "static" => o.port = NoPort}
RemoveOps ==
    [kind : {"remove"}, name : Names, method : {""}, url : {<<>>}, port : {NoPort}]
RedeployOps ==
    [kind : {"redeploy"}, name : Names, method : {""}, url : {<<>>}, port : {NoPort}]
StopOps ==
    [kind : {"stop"}, name : Names, method : {""}, url : {<<>>}, port : {NoPort}]
StatusOps ==
    [kind : {"status"}, name : Names, method : {""}, url : {<<>>}, port : {NoPort}]
ListOps ==
    [kind : {"list"}, name : {""}, method : {""}, url : {<<>>}, port : {NoPort}]
InitOp == [kind |-> "init", name |-> "", method |-> "", url |-> <<>>, port |-> NoPort]
NoOp == [kind |-> "none", name |-> "", method |-> "", url |-> <<>>, port |-> NoPort]

NoLoc == [garden |-> EmptyMap, ports |-> empty_ports_state, port |-> NoPort,
          status |-> EmptyMap, todo |-> {}, probed |-> {}, pfailed |-> {}]
NoUnit == [installed |-> FALSE, enabled |-> FALSE, active |-> FALSE]

Rest == {"idle", "done", "failed"}

\* Steps whose failure the operation catches and ignores.  remove_app wraps
\* the stop and the disable command in try/except RuntimeError and the
\* release_port call in try/except ValueError ("r_release" is the ValueError
\* of _release_port); deploy_* and redeploy_app catch nothing.
RemoveBestEffortNone == {}
RemoveBestEffort == {"r_stop", "r_disable", "r_release"}

DeployBestEffortReload == {"d_caddy_reload"}
DeployBestEffort == {}

RedeployBestEffort == {}

\* app_status and list_apps_with_status wrap the is-active probe in
\* try/except RuntimeError.
StatusBestEffortNone == {}
StatusBestEffort == {"t_probe"}

BestEffort(kind) ==
    CASE kind = "remove" -> RemoveBestEffort
      [] kind = "deploy" -> DeployBestEffort
      [] kind \in {"status", "list"} -> StatusBestEffort
      [] OTHER -> RedeployBestEffort

\* datetime.now(): a logical clock, the number of operations started.
Now == budget.ops

\* Outcomes of a remote command: it may fail while failures are allowed.
Outcomes == IF budget.fails < MaxFails THEN {TRUE, FALSE} ELSE {TRUE}

\* Bookkeeping of step s of client c: ok continues at nxt, a failure is
\* ignored when the operation treats s as best-effort and aborts otherwise.
Finish(c, s, ok, nxt) ==
    /\ ran' = [ran EXCEPT ![c] = Append(@, s)]
    /\ IF ok \/ s \in BestEffort(op[c].kind)
          THEN /\ pc' = [pc EXCEPT ![c] = nxt]
               /\ swallowed' = IF ok THEN swallowed
                               ELSE [swallowed EXCEPT ![c] = @ \cup {s}]
               /\ UNCHANGED <<err, anyFailed>>
          ELSE /\ pc' = [pc EXCEPT ![c] = "failed"]
               /\ err' = [err EXCEPT ![c] = s]
               /\ anyFailed' = TRUE
               /\ UNCHANGED swallowed

\* A remote command of step s: its outcome is chosen here.
Remote(c, s, ok, nxt) ==
    /\ ok \in Outcomes
    /\ budget' = IF ok THEN budget ELSE [budget EXCEPT !.fails = @ + 1]
    /\ Finish(c, s, ok, nxt)

FirstPc(o) ==
    CASE o.kind = "deploy" -> "d_source"
      [] o.kind = "remove" -> "r_read"
      [] o.kind = "stop" -> "s_stop"
      [] o.kind = "status" -> "t_read"
      [] o.kind = "list" -> "l_read"
      [] o.kind = "init" -> "i_prepare"
      [] OTHER -> "p_read"

\* A client starts an operation (the CLI entry points of 10_cli).
Start(c, o) ==
    /\ pc[c] \in Rest
    /\ budget.ops < budget.max
    /\ budget' = [budget EXCEPT !.ops = @ + 1]
    /\ op' = [op EXCEPT ![c] = o]
    /\ pc' = [pc EXCEPT ![c] = FirstPc(o)]
    /\ loc' = [loc EXCEPT ![c] = [NoLoc EXCEPT !.port = o.port]]
    /\ ran' = [ran EXCEPT ![c] = <<>>]
    /\ err' = [err EXCEPT ![c] = ""]
    /\ swallowed' = [swallowed EXCEPT ![c] = {}]
    /\ UNCHANGED <<ports, garden, caddy, units, relStarted, anyFailed, histVars, storeVars, tunnelVars>>

NeedsAlloc(o) == o.method # "static" /\ o.port = NoPort

AfterAlloc(o) ==
    CASE o.method = "static" -> "d_garden_read"
      [] o.method = "dockerfile" -> "d_build"
      [] OTHER -> "d_unit_write"

\* deploy_*: mkdir and upload_source.
DSource(c) ==
    /\ pc[c] = "d_source"
    /\ \E ok \in BOOLEAN :
          Remote(c, "d_source", ok,
                 IF NeedsAlloc(op[c]) THEN "d_ports_read" ELSE AfterAlloc(op[c]))
    /\ UNCHANGED <<ports, garden, caddy, units, op, loc, relStarted, histVars, storeVars, tunnelVars>>

\* allocate_port: read_ports_state, then _allocate_port on the value read.
DPortsRead(c) ==
    /\ pc[c] = "d_ports_read"
    /\ \E ok \in BOOLEAN :
          LET r == AllocatePort(ports, op[c].name)
          IN IF ok /\ ~r.ok
                THEN \* ValueError of _allocate_port: not caught by deploy_*
                     /\ Finish(c, "d_allocate", FALSE, "failed")
                     /\ UNCHANGED <<budget, loc>>
                ELSE /\ Remote(c, "d_ports_read", ok, "d_ports_write")
                     /\ loc' = IF ok
                                  THEN [loc EXCEPT ![c].ports = r.ports,
                                                   ![c].port = r.port]
                                  ELSE loc
    /\ UNCHANGED <<ports, garden, caddy, units, op, relStarted, histVars, storeVars, tunnelVars>>

\* allocate_port: write_ports_state of the value computed from the read.
DPortsWrite(c) ==
    /\ pc[c] = "d_ports_write"
    /\ \E ok \in BOOLEAN :
          /\ Remote(c, "d_ports_write", ok, AfterAlloc(op[c]))
          /\ ports' = IF ok THEN loc[c].ports ELSE ports
    /\ UNCHANGED <<garden, caddy, units, op, loc, relStarted, histVars, storeVars, tunnelVars>>

\* deploy_dockerfile: docker build.
DBuild(c) ==
    /\ pc[c] = "d_build"
    /\ \E ok \in BOOLEAN : Remote(c, "d_build", ok, "d_compose")
    /\ UNCHANGED <<ports, garden, caddy, units, op, loc, relStarted, histVars, storeVars, tunnelVars>>

\* deploy_dockerfile: write docker-compose.yml.
DCompose(c) ==
    /\ pc[c] = "d_compose"
    /\ \E ok \in BOOLEAN : Remote(c, "d_compose", ok, "d_unit_write")
    /\ UNCHANGED <<ports, garden, caddy, units, op, loc, relStarted, histVars, storeVars, tunnelVars>>

\* _deploy_systemd_unit: write the unit file.
DUnitWrite(c) ==
    /\ pc[c] = "d_unit_write"
    /\ \E ok \in BOOLEAN :
          /\ Remote(c, "d_unit_write", ok, "d_unit_reload")
          /\ units' = IF ok THEN [units EXCEPT ![op[c].name].installed = TRUE]
                            ELSE units
    /\ UNCHANGED <<ports, garden, caddy, op, loc, relStarted, histVars, storeVars, tunnelVars>>

\* _deploy_systemd_unit: systemctl daemon-reload.
DUnitReload(c) ==
    /\ pc[c] = "d_unit_reload"
    /\ \E ok \in BOOLEAN : Remote(c, "d_unit_reload", ok, "d_unit_enable")
    /\ UNCHANGED <<ports, garden, caddy, units, op, loc, relStarted, histVars, storeVars, tunnelVars>>

\* _deploy_systemd_unit: systemctl enable.
DUnitEnable(c) ==
    /\ pc[c] = "d_unit_enable"
    /\ \E ok \in BOOLEAN :
          /\ Remote(c, "d_unit_enable", ok, "d_unit_restart")
          /\ units' = IF ok THEN [units EXCEPT ![op[c].name].enabled = TRUE]
                            ELSE units
    /\ UNCHANGED <<ports, garden, caddy, op, loc, relStarted, histVars, storeVars, tunnelVars>>

\* _deploy_systemd_unit: systemctl restart.
DUnitRestart(c) ==
    /\ pc[c] = "d_unit_restart"
    /\ \E ok \in BOOLEAN :
          /\ Remote(c, "d_unit_restart", ok, "d_garden_read")
          /\ units' = IF ok THEN [units EXCEPT ![op[c].name].active = TRUE]
                            ELSE units
    /\ UNCHANGED <<ports, garden, caddy, op, loc, relStarted, histVars, storeVars, tunnelVars>>

\* deploy_*: garden_state = read_garden_state(host).
DGardenRead(c) ==
    /\ pc[c] = "d_garden_read"
    /\ \E ok \in BOOLEAN :
          /\ Remote(c, "d_garden_read", ok, "d_caddy_write")
          /\ loc' = IF ok THEN [loc EXCEPT ![c].garden = garden] ELSE loc
    /\ UNCHANGED <<ports, garden, caddy, units, op, relStarted, histVars, storeVars, tunnelVars>>

\* The method deploy_* hands to deploy_caddy_config: only deploy_static
\* passes one, the others leave the default "command".
CaddyMethod(o) == IF o.method = "static" THEN "static" ELSE "command"

\* deploy_caddy_config: write the routing file from the snapshot.
DCaddyWrite(c) ==
    /\ pc[c] = "d_caddy_write"
    /\ \E ok \in BOOLEAN :
          /\ Remote(c, "d_caddy_write", ok, ReloadAfter("d_caddy_write"))
          /\ caddy' = IF ok
                         THEN DeployCaddy(caddy, loc[c].garden, op[c].name,
                                          op[c].url, loc[c].port, CaddyMethod(op[c]))
                         ELSE caddy
    /\ UNCHANGED <<ports, garden, units, op, loc, relStarted, histVars, storeVars, tunnelVars>>

\* deploy_caddy_config: systemctl reload caddy.
DCaddyReload(c) ==
    /\ pc[c] = "d_caddy_reload"
    /\ \E ok \in BOOLEAN : Remote(c, "d_caddy_reload", ok, "d_register")
    /\ UNCHANGED <<ports, garden, caddy, units, op, loc, relStarted, histVars, storeVars, tunnelVars>>

\* _register_app: the record written for the application.
AppEntry(o, port, now) ==
    [method |-> o.method, url |-> o.url, port |-> port,
     created_at |-> now, updated_at |-> now]

\* _register_app: garden_state["apps"][name] = app_entry on the snapshot,
\* then write_garden_state of the snapshot.
DRegister(c) ==
    /\ pc[c] = "d_register"
    /\ \E ok \in BOOLEAN :
          /\ Remote(c, "d_register", ok, "d_appjson")
          /\ garden' = IF ok
                          THEN Put(loc[c].garden, op[c].name,
                                   AppEntry(op[c], loc[c].port, Now))
                          ELSE garden
    /\ UNCHANGED <<ports, caddy, units, op, loc, relStarted, histVars, storeVars, tunnelVars>>

\* _register_app: write app.json.
DAppJson(c) ==
    /\ pc[c] = "d_appjson"
    /\ \E ok \in BOOLEAN : Remote(c, "d_appjson", ok, "done")
    /\ UNCHANGED <<ports, garden, caddy, units, op, loc, relStarted, histVars, storeVars, tunnelVars>>

\* remove_app: read_garden_state, ValueError when name is not registered.
RRead(c) ==
    /\ pc[c] = "r_read"
    /\ \E ok \in BOOLEAN :
          IF ok /\ op[c].name \notin DOMAIN garden
             THEN /\ Finish(c, "r_notfound", FALSE, "failed")
                  /\ UNCHANGED <<budget, loc>>
             ELSE /\ Remote(c, "r_read", ok,
                            IF ok /\ garden[op[c].name].method = "static"
                               THEN "r_caddy" ELSE "r_stop")
                  /\ loc' = IF ok THEN [loc EXCEPT ![c].garden = garden] ELSE loc
    /\ UNCHANGED <<ports, garden, caddy, units, op, relStarted, histVars, storeVars, tunnelVars>>

\* remove_app: systemctl stop.
RStop(c) ==
    /\ pc[c] = "r_stop"
    /\ \E ok \in BOOLEAN :
          /\ Remote(c, "r_stop", ok, "r_disable")
          /\ units' = IF ok THEN [units EXCEPT ![op[c].name].active = FALSE]
                            ELSE units
    /\ UNCHANGED <<ports, garden, caddy, op, loc, relStarted, histVars, storeVars, tunnelVars>>

\* remove_app: systemctl disable.
RDisable(c) ==
    /\ pc[c] = "r_disable"
    /\ \E ok \in BOOLEAN :
          /\ Remote(c, "r_disable", ok, "r_rm_unit")
          /\ units' = IF ok THEN [units EXCEPT ![op[c].name].enabled = FALSE]
                            ELSE units
    /\ UNCHANGED <<ports, garden, caddy, op, loc, relStarted, histVars, storeVars, tunnelVars>>

\* remove_app: privileged_remove_unit.
RRmUnit(c) ==
    /\ pc[c] = "r_rm_unit"
    /\ \E ok \in BOOLEAN :
          /\ Remote(c, "r_rm_unit", ok, "r_reload")
          /\ units' = IF ok THEN [units EXCEPT ![op[c].name].installed = FALSE]
                            ELSE units
    /\ UNCHANGED <<ports, garden, caddy, op, loc, relStarted, histVars, storeVars, tunnelVars>>

\* remove_app: systemctl daemon-reload.
RReload(c) ==
    /\ pc[c] = "r_reload"
    /\ \E ok \in BOOLEAN : Remote(c, "r_reload", ok, "r_caddy")
    /\ UNCHANGED <<ports, garden, caddy, units, op, loc, relStarted, histVars, storeVars, tunnelVars>>

\* remove_caddy_config: rewrite or delete the routing file from the snapshot.
RCaddy(c) ==
    /\ pc[c] = "r_caddy"
    /\ \E ok \in BOOLEAN :
          /\ Remote(c, "r_caddy", ok, ReloadAfter("r_caddy"))
          /\ caddy' = IF ok
                         THEN RemoveCaddy(caddy, loc[c].garden, op[c].name,
                                          loc[c].garden[op[c].name].url)
                         ELSE caddy
    /\ UNCHANGED <<ports, garden, units, op, loc, relStarted, histVars, storeVars, tunnelVars>>

\* remove_caddy_config: systemctl reload caddy; then remove_app releases the
\* port only when the record carries one.
RCaddyReload(c) ==
    /\ pc[c] = "r_caddy_reload"
    /\ \E ok \in BOOLEAN :
          Remote(c, "r_caddy_reload", ok,
                 IF loc[c].garden[op[c].name].port # NoPort
                    THEN "r_ports_read" ELSE "r_garden_write")
    /\ UNCHANGED <<ports, garden, caddy, units, op, loc, relStarted, histVars, storeVars, tunnelVars>>

\* release_port: read_ports_state, then _release_port on the value read.
RPortsRead(c) ==
    /\ pc[c] = "r_ports_read"
    /\ relStarted' = relStarted \cup {op[c].name}
    /\ \E ok \in BOOLEAN :
          LET r == ReleasePort(ports, op[c].name)
          IN IF ok /\ ~r.ok
                THEN \* ValueError of _release_port
                     /\ Finish(c, "r_release", FALSE, "r_garden_write")
                     /\ UNCHANGED <<budget, loc>>
                ELSE /\ Remote(c, "r_ports_read", ok, "r_ports_write")
                     /\ loc' = IF ok THEN [loc EXCEPT ![c].ports = r.ports] ELSE loc
    /\ UNCHANGED <<ports, garden, caddy, units, op, histVars, storeVars, tunnelVars>>

\* release_port: write_ports_state of the value computed from the read.
RPortsWrite(c) ==
    /\ pc[c] = "r_ports_write"
    /\ \E ok \in BOOLEAN :
          /\ Remote(c, "r_ports_write", ok, "r_garden_write")
          /\ ports' = IF ok THEN loc[c].ports ELSE ports
    /\ UNCHANGED <<garden, caddy, units, op, loc, relStarted, histVars, storeVars, tunnelVars>>

\* remove_app: del state["apps"][name] on the snapshot, write_garden_state.
RGardenWrite(c) ==
    /\ pc[c] = "r_garden_write"
    /\ \E ok \in BOOLEAN :
          /\ Remote(c, "r_garden_write", ok, "r_files")
          /\ garden' = IF ok THEN Del(loc[c].garden, op[c].name) ELSE garden
    /\ UNCHANGED <<ports, caddy, units, op, loc, relStarted, histVars, storeVars, tunnelVars>>

\* remove_app: delete the application's directory.
RFiles(c) ==
    /\ pc[c] = "r_files"
    /\ \E ok \in BOOLEAN : Remote(c, "r_files", ok, "done")
    /\ UNCHANGED <<ports, garden, caddy, units, op, loc, relStarted, histVars, storeVars, tunnelVars>>

\* redeploy_app: read_garden_state, ValueError when name is not registered.
PRead(c) ==
    /\ pc[c] = "p_read"
    /\ \E ok \in BOOLEAN :
          IF ok /\ op[c].name \notin DOMAIN garden
             THEN /\ Finish(c, "p_notfound", FALSE, "failed")
                  /\ UNCHANGED <<budget, loc>>
             ELSE /\ Remote(c, "p_read", ok, "p_source")
                  /\ loc' = IF ok THEN [loc EXCEPT ![c].garden = garden] ELSE loc
    /\ UNCHANGED <<ports, garden, caddy, units, op, relStarted, histVars, storeVars, tunnelVars>>

\* redeploy_app: git pull or re-upload of the source.
PSource(c) ==
    /\ pc[c] = "p_source"
    /\ \E ok \in BOOLEAN :
          Remote(c, "p_source", ok,
                 IF loc[c].garden[op[c].name].method = "dockerfile"
                    THEN "p_build" ELSE "p_restart")
    /\ UNCHANGED <<ports, garden, caddy, units, op, loc, relStarted, histVars, storeVars, tunnelVars>>

\* redeploy_app: docker build for the container methods.
PBuild(c) ==
    /\ pc[c] = "p_build"
    /\ \E ok \in BOOLEAN : Remote(c, "p_build", ok, "p_restart")
    /\ UNCHANGED <<ports, garden, caddy, units, op, loc, relStarted, histVars, storeVars, tunnelVars>>

\* redeploy_app: systemctl restart of the unit (reload caddy for static).
PRestart(c) ==
    /\ pc[c] = "p_restart"
    /\ \E ok \in BOOLEAN :
          /\ Remote(c, "p_restart", ok, "p_write")
          /\ units' = IF ok /\ loc[c].garden[op[c].name].method # "static"
                         THEN [units EXCEPT ![op[c].name].active = TRUE]
                         ELSE units
    /\ UNCHANGED <<ports, garden, caddy, op, loc, relStarted, histVars, storeVars, tunnelVars>>

\* The record with every timestamp reset (not what redeploy_app does).
TouchAll(entry, now) == [entry EXCEPT !.updated_at = now, !.created_at = now]

\* redeploy_app: entry["updated_at"] = datetime.now().
Touch(entry, now) == [entry EXCEPT !.updated_at = now]

\* redeploy_app: entry["updated_at"] = now on the snapshot, write_garden_state.
PWrite(c) ==
    /\ pc[c] = "p_write"
    /\ \E ok \in BOOLEAN :
          /\ Remote(c, "p_write", ok, "done")
          /\ garden' = IF ok
                          THEN [loc[c].garden EXCEPT ![op[c].name] = Touch(@, Now)]
                          ELSE garden
    /\ UNCHANGED <<ports, caddy, units, op, loc, relStarted, histVars, storeVars, tunnelVars>>

\* stop_app: systemctl stop of the unit.
SStop(c) ==
    /\ pc[c] = "s_stop"
    /\ \E ok \in BOOLEAN :
          /\ Remote(c, "s_stop", ok, "done")
          /\ units' = IF ok THEN [units EXCEPT ![op[c].name].active = FALSE]
                            ELSE units
    /\ UNCHANGED <<ports, garden, caddy, op, loc, relStarted, histVars, storeVars, tunnelVars>>

\* The status the is-active probe of unit n yields: the command exits 0
\* and prints "active" when the unit is active, and fails otherwise (or
\* when the command cannot be run), which the caller turns into "inactive".
ProbeStatus(ok, n) == IF ok /\ units[n].active THEN "active" ELSE "inactive"

\* One pass of the status code for application n of the snapshot g in
\* client c: "serving" for a static application, the probe otherwise.
Probe(c, n, g, ok, nxt) ==
    IF g[n].method = "static"
       THEN /\ ok
            /\ loc' = [loc EXCEPT ![c].status = Put(@, n, "serving"),
                                  ![c].todo = @ \ {n}]
            /\ pc' = [pc EXCEPT ![c] = nxt]
            /\ UNCHANGED <<budget, ran, err, swallowed, anyFailed>>
       ELSE /\ ok \in Outcomes
            /\ budget' = IF ok THEN budget ELSE [budget EXCEPT !.fails = @ + 1]
            /\ Finish(c, "t_probe", ok /\ units[n].active, nxt)
            /\ loc' = [loc EXCEPT ![c].status = Put(@, n, ProbeStatus(ok, n)),
                                  ![c].todo = @ \ {n},
                                  ![c].probed = @ \cup {n},
                                  ![c].pfailed = IF ok THEN @ ELSE @ \cup {n}]

\* app_status: read_garden_state; ValueError when the name is not there.
TRead(c) ==
    /\ pc[c] = "t_read"
    /\ \E ok \in BOOLEAN :
          IF ok /\ op[c].name \notin DOMAIN garden
             THEN /\ Finish(c, "t_lookup", FALSE, "failed")
                  /\ UNCHANGED <<budget, loc>>
             ELSE /\ Remote(c, "t_read", ok, "t_probe")
                  /\ loc' = IF ok THEN [loc EXCEPT ![c].garden = garden] ELSE loc
    /\ UNCHANGED <<ports, garden, caddy, units, op, relStarted, histVars, storeVars, tunnelVars>>

\* app_status: the status of the entry, then the AppStatus is returned.
TProbe(c) ==
    /\ pc[c] = "t_probe"
    /\ \E ok \in BOOLEAN : Probe(c, op[c].name, loc[c].garden, ok, "done")
    /\ UNCHANGED <<ports, garden, caddy, units, op, relStarted, histVars, storeVars, tunnelVars>>

\* list_apps_with_status: list_apps reads garden.json.
LRead(c) ==
    /\ pc[c] = "l_read"
    /\ \E ok \in BOOLEAN :
          /\ Remote(c, "l_read", ok, "l_loop")
          /\ loc' = IF ok THEN [loc EXCEPT ![c].garden = garden,
                                           ![c].todo = DOMAIN garden]
                          ELSE loc
    /\ UNCHANGED <<ports, garden, caddy, units, op, relStarted, histVars, storeVars, tunnelVars>>

\* list_apps_with_status: the loop body for the next application.
LProbe(c) ==
    /\ pc[c] = "l_loop"
    /\ loc[c].todo # {}
    /\ \E ok \in BOOLEAN :
          Probe(c, CHOOSE n \in loc[c].todo : TRUE, loc[c].garden, ok, "l_loop")
    /\ UNCHANGED <<ports, garden, caddy, units, op, relStarted, histVars, storeVars, tunnelVars>>

\* list_apps_with_status: the loop is over, the list is returned.
LReturn(c) ==
    /\ pc[c] = "l_loop"
    /\ loc[c].todo = {}
    /\ pc' = [pc EXCEPT ![c] = "done"]
    /\ UNCHANGED <<ports, garden, caddy, units, op, loc, ran, err, swallowed,
                   budget, relStarted, anyFailed, histVars, storeVars, tunnelVars>>

\* init_server, steps 1 to 9: packages, the root Caddyfile, firewall, SSH
\* hardening and mkdir -p of the directories; none of them touches the
\* state documents, the generated routing files or the units.
IPrepare(c) ==
    /\ pc[c] = "i_prepare"
    /\ \E ok \in BOOLEAN : Remote(c, "i_prepare", ok, "i_garden")
    /\ UNCHANGED <<ports, garden, caddy, units, op, loc, relStarted, histVars, storeVars, tunnelVars>>

\* init_server, step 10: write_remote_file(GARDEN_STATE_PATH, {"apps": {}}).
IGarden(c) ==
    /\ pc[c] = "i_garden"
    /\ \E ok \in BOOLEAN :
          /\ Remote(c, "i_garden", ok, "i_ports")
          /\ garden' = IF ok THEN EmptyMap ELSE garden
    /\ UNCHANGED <<ports, caddy, units, op, loc, relStarted, histVars, storeVars, tunnelVars>>

\* init_server, step 10: write_remote_file(PORTS_PATH, empty_ports_state()).
IPorts(c) ==
    /\ pc[c] = "i_ports"
    /\ \E ok \in BOOLEAN :
          /\ Remote(c, "i_ports", ok, "i_services")
          /\ ports' = IF ok THEN empty_ports_state ELSE ports
    /\ UNCHANGED <<garden, caddy, units, op, loc, relStarted, histVars, storeVars, tunnelVars>>

\* init_server: enable and start Docker and Caddy.
IServices(c) ==
    /\ pc[c] = "i_services"
    /\ \E ok \in BOOLEAN : Remote(c, "i_services", ok, "done")
    /\ UNCHANGED <<ports, garden, caddy, units, op, loc, relStarted, histVars, storeVars, tunnelVars>>

InitServerNext(c) ==
    \/ Start(c, InitOp)
    \/ IPrepare(c) \/ IGarden(c) \/ IPorts(c) \/ IServices(c)

StatusNext(c) ==
    \/ \E o \in StatusOps \cup ListOps : Start(c, o)
    \/ TRead(c) \/ TProbe(c)
    \/ LRead(c) \/ LProbe(c) \/ LReturn(c)

ClientNext(c) ==
    \/ \E o \in DeployOps \cup RemoveOps \cup RedeployOps \cup StopOps : Start(c, o)
    \/ SStop(c)
    \/ DSource(c) \/ DPortsRead(c) \/ DPortsWrite(c) \/ DBuild(c) \/ DCompose(c)
    \/ DUnitWrite(c) \/ DUnitReload(c) \/ DUnitEnable(c) \/ DUnitRestart(c)
    \/ DGardenRead(c) \/ DCaddyWrite(c) \/ DCaddyReload(c)
    \/ DRegister(c) \/ DAppJson(c)
    \/ RRead(c) \/ RStop(c) \/ RDisable(c) \/ RRmUnit(c) \/ RReload(c)
    \/ RCaddy(c) \/ RCaddyReload(c) \/ RPortsRead(c) \/ RPortsWrite(c)
    \/ RGardenWrite(c) \/ RFiles(c)
    \/ PRead(c) \/ PSource(c) \/ PBuild(c) \/ PRestart(c) \/ PWrite(c)

\* The state init_server leaves: empty registries, no routing files.
Fresh ==
    [ports |-> empty_ports_state,
     garden |-> EmptyMap,
     caddy |-> [app |-> EmptyMap, subdir |-> EmptyMap],
     units |-> [n \in Names |-> NoUnit]]

\* The state a completed deploy o leaves when it starts from state s with
\* no other client running (the effects of the deploy steps, in order).
AfterDeploy(s, o, now) ==
    LET r == IF NeedsAlloc(o) THEN AllocatePort(s.ports, o.name)
             ELSE [ok |-> TRUE, ports |-> s.ports, port |-> o.port]
    IN [ports |-> r.ports,
        garden |-> Put(s.garden, o.name, AppEntry(o, r.port, now)),
        caddy |-> DeployCaddy(s.caddy, s.garden, o.name, o.url, r.port, CaddyMethod(o)),
        units |-> IF o.method = "static" THEN s.units
                  ELSE [s.units EXCEPT ![o.name] =
                           [installed |-> TRUE, enabled |-> TRUE, active |-> TRUE]]]

\* A host on which application "a" is already deployed (command method,
\* subdirectory URL, allocated port).
SeedOp == [kind |-> "deploy", name |-> "a", method |-> "command", url |-> UrlP,
           port |-> NoPort]
Seeded == AfterDeploy(Fresh, SeedOp, 0)

\* Nothing is running on a host in one of the states of S.
InitHostIn(S) ==
    /\ \E s \in S :
          /\ ports = s.ports
          /\ garden = s.garden
          /\ caddy = s.caddy
          /\ units = s.units
    /\ pc = [c \in Clients |-> "idle"]
    /\ op = [c \in Clients |-> NoOp]
    /\ loc = [c \in Clients |-> NoLoc]
    /\ ran = [c \in Clients |-> <<>>]
    /\ err = [c \in Clients |-> ""]
    /\ swallowed = [c \in Clients |-> {}]
    /\ relStarted = {}
    /\ anyFailed = FALSE
    /\ last = NoCall
    /\ issued = {}

InitHost == InitHostIn({Fresh, Seeded})
InitShared == InitHost /\ call = NoPure

Init == InitShared /\ StoreIdle /\ TunnelsIdle /\ budget = [ops |-> 0, max |-> MaxOps, fails |-> 0]
Next == \E c \in Clients : ClientNext(c)
Spec == Init /\ [][Next]_vars

\* One invocation at a time: a single client runs its operations in turn.
InitSeq == InitShared /\ StoreIdle /\ TunnelsIdle /\ budget = [ops |-> 0, max |-> MaxOpsSeq, fails |-> 0]
NextSeq == ClientNext(1)
SpecSeq == InitSeq /\ [][NextSeq]_vars

\* A host on which the static application "b" is deployed next to "a".
StaticOp == [kind |-> "deploy", name |-> "b", method |-> "static", url |-> UrlSub,
             port |-> NoPort]
Mixed == AfterDeploy(Seeded, StaticOp, 0)

\* One client that initialises the server, stops applications and asks for
\* their status.
InitStatus ==
    /\ InitHostIn({Fresh, Seeded, Mixed})
    /\ call = NoPure
    /\ StoreIdle
    /\ TunnelsIdle
    /\ budget = [ops |-> 0, max |-> MaxOpsSeq, fails |-> 0]
NextStatus ==
    \/ \E o \in StopOps : Start(1, o)
    \/ SStop(1)
    \/ StatusNext(1)
    \/ InitServerNext(1)
SpecStatus == InitStatus /\ [][NextStatus]_vars

----------------------------------------------------------------------------
(* SpecPorts: call sequences of the pure helpers *)

PortApps == {"a", "b", "c"}
RegPorts == {PORT_RANGE_START - 1, PORT_RANGE_START + 1}

PAllocate(app) ==
    /\ ports.next_port < PORT_RANGE_START + MaxAllocs
    /\ LET r == AllocatePort(ports, app)
       IN /\ ports' = r.ports
          /\ last' = [op |-> "allocate", app |-> app, arg |-> NoPort,
                      ok |-> r.ok, port |-> r.port]
          /\ issued' = IF r.ok THEN issued \cup {r.port} ELSE issued
    /\ UNCHANGED <<call, clientVars, storeVars, tunnelVars>>

PRelease(app) ==
    /\ LET r == ReleasePort(ports, app)
       IN /\ ports' = r.ports
          /\ last' = [op |-> "release", app |-> app, arg |-> NoPort,
                      ok |-> r.ok, port |-> NoPort]
    /\ UNCHANGED <<issued, call, clientVars, storeVars, tunnelVars>>

PRegister(port, app) ==
    /\ LET r == RegisterPort(ports, port, app)
       IN /\ ports' = r.ports
          /\ last' = [op |-> "register", app |-> app, arg |-> port,
                      ok |-> r.ok, port |-> NoPort]
          /\ issued' = IF r.ok THEN issued \cup {port} ELSE issued
    /\ UNCHANGED <<call, clientVars, storeVars, tunnelVars>>

NextPorts ==
    \E app \in PortApps :
        \/ PAllocate(app)
        \/ PRelease(app)
        \/ \E port \in RegPorts : PRegister(port, app)

InitPorts ==
    /\ InitShared
    /\ StoreIdle
    /\ TunnelsIdle
    /\ ports = empty_ports_state
    /\ garden = EmptyMap
    /\ budget = [ops |-> 0, max |-> 0, fails |-> 0]
SpecPorts == InitPorts /\ [][NextPorts]_vars

----------------------------------------------------------------------------
(* SpecUrl: parse_url applied to the URLs of a bounded alphabet *)

MaxUrlLen == 5      \* SpecUrl: characters of a URL after its scheme

UrlChars == {"d", "p", "/"}
UrlSchemes == {<<>>, HTTP, HTTPS}
UrlInputs ==
    {pre \o body : pre \in UrlSchemes,
                   body \in UNION {[1..n -> UrlChars] : n \in 0..MaxUrlLen}}

\* No client, store call or tunnel is running while a pure function is
\* applied to its argument.
InitPure ==
    /\ InitHost
    /\ ports = empty_ports_state
    /\ garden = EmptyMap
    /\ units = [n \in Names |-> NoUnit]
    /\ budget = [ops |-> 0, max |-> 0, fails |-> 0]
    /\ StoreIdle
    /\ TunnelsIdle

PureFrame == UNCHANGED <<ports, clientVars, last, issued, storeVars, tunnelVars>>

InitUrl == InitPure /\ \E u \in UrlInputs : call = [fn |-> "input", arg |-> u]

ParseUrl ==
    /\ call.fn = "input"
    /\ call' = [fn |-> "parse_url", arg |-> call.arg, res |-> parse_url(call.arg)]
    /\ PureFrame

NextUrl == ParseUrl
SpecUrl == InitUrl /\ [][NextUrl]_vars

----------------------------------------------------------------------------
(* Configuration cascade: resolve_environment (08_environments) and       *)
(* _resolve_deploy_params (10_cli)                                        *)

MaxParts == 2       \* SpecCascade: parts a configured string is built from

\* A configuration value is a string (the sequence of its characters), a
\* table, a list, or None; a dict maps keys to such values.
None == [t |-> "none", s |-> <<>>, m |-> EmptyMap, l |-> <<>>]
Str(x) == [t |-> "str", s |-> x, m |-> EmptyMap, l |-> <<>>]
Table(x) == [t |-> "table", s |-> <<>>, m |-> x, l |-> <<>>]
List(x) == [t |-> "list", s |-> <<>>, m |-> EmptyMap, l |-> x]

\* d.get(k, default)
Get(d, k, default) == IF k \in DOMAIN d THEN d[k] ELSE default

\* {**a, **b}
Merge(a, b) == [k \in DOMAIN a \cup DOMAIN b |-> IF k \in DOMAIN b THEN b[k] ELSE a[k]]

\* The loop that keeps the first occurrence of every item of a list.
RECURSIVE Dedup(_)
Dedup(l) ==
    IF l = <<>> THEN <<>>
    ELSE LET init == Dedup(SubSeq(l, 1, Len(l) - 1))
             x == l[Len(l)]
         IN IF \E i \in 1..Len(init) : init[i] = x THEN init ELSE Append(init, x)

\* str.replace(tok, val): the occurrences of tok from left to right.
RECURSIVE Replace(_, _, _)
Replace(s, tok, val) ==
    IF Len(s) < Len(tok) THEN s
    ELSE IF SubSeq(s, 1, Len(tok)) = tok
            THEN val \o Replace(SubSeq(s, Len(tok) + 1, Len(s)), tok, val)
            ELSE <<Head(s)>> \o Replace(Tail(s), tok, val)

TokAppName == <<"{", "a", "p", "p", ".", "n", "a", "m", "e", "}">>
TokAppSlug == <<"{", "a", "p", "p", ".", "s", "l", "u", "g", "}">>
TokEnvName == <<"{", "e", "n", "v", ".", "n", "a", "m", "e", "}">>

\* ProjectConfig.app_slug is None.
NoSlug == <<>>

\* A variant of the slug placeholder that always uses the application name.
SlugOfName(config) == config.app_name

\* placeholders["app.slug"] = config.app_slug or config.app_name
SlugOf(config) == IF config.app_slug # NoSlug THEN config.app_slug ELSE config.app_name

\* The three replacements, in the order of the placeholders dict.
Interpolate(v, config, env_name) ==
    Replace(Replace(Replace(v, TokAppName, config.app_name),
                    TokAppSlug, SlugOf(config)),
            TokEnvName, env_name)

\* derive_app_name: the base name for production, base-env otherwise.
Production == <<"p", "r", "o", "d">>
Staging == <<"s", "t", "g">>
Dev == <<"d", "e", "v">>
derive_app_name(base_name, env_name) ==
    IF env_name = Production THEN base_name ELSE base_name \o <<"-">> \o env_name

CollectionKeys == {"env", "meta", "exclude", "volumes"}

\* resolve_environment: ValueError for an undefined environment, its message
\* listing the defined names (available); else the
\* application defaults overlaid by the environment, tables merged, lists
\* concatenated and de-duplicated, placeholders replaced in the string
\* values and in the values of env.
resolve_environment(config, env_name) ==
    IF env_name \notin DOMAIN config.environments
       THEN [ok |-> FALSE, available |-> DOMAIN config.environments]
       ELSE LET defaults == config.app_defaults
                env_data == config.environments[env_name]
                merged_env == Merge(Get(defaults, "env", Table(EmptyMap)).m,
                                    Get(env_data, "env", Table(EmptyMap)).m)
                merged_meta == Merge(Get(defaults, "meta", Table(EmptyMap)).m,
                                     Get(env_data, "meta", Table(EmptyMap)).m)
                merged_exclude == Dedup(Get(defaults, "exclude", List(<<>>)).l
                                        \o Get(env_data, "exclude", List(<<>>)).l)
                merged_volumes == Dedup(Get(defaults, "volumes", List(<<>>)).l
                                        \o Get(env_data, "volumes", List(<<>>)).l)
                merged == Merge([k \in DOMAIN defaults \ CollectionKeys |-> defaults[k]],
                                [k \in DOMAIN env_data \ CollectionKeys |-> env_data[k]])
            IN [ok |-> TRUE,
                name |-> env_name,
                app_name |-> derive_app_name(config.app_name, env_name),
                fields |-> [k \in DOMAIN merged |->
                               IF merged[k].t = "str"
                                  THEN Str(Interpolate(merged[k].s, config, env_name))
                                  ELSE merged[k]],
                env |-> [k \in DOMAIN merged_env |->
                            Interpolate(merged_env[k], config, env_name)],
                meta |-> merged_meta,
                exclude |-> merged_exclude,
                volumes |-> merged_volumes]

DEPLOY_DEFAULTS ==
    [k \in {"method", "container_port"} |->
        IF k = "method" THEN Str(<<"static">>) ELSE Str(<<"3000">>)]

\* The update that also copies the keys whose value is None.
UpdateWithNone(result, layer) == Merge(result, layer)

\* result.update({k: v for k, v in layer.items() if v is not None})
Update(result, layer) ==
    Merge(result, [k \in {x \in DOMAIN layer : layer[x] # None} |-> layer[k]])

\* _resolve_deploy_params: the layers applied over the built-in defaults,
\* lowest first; an absent layer is the empty dict.
resolve_deploy_params(cli, env_cfg, project_defaults, global_defaults) ==
    Update(Update(Update(Update(DEPLOY_DEFAULTS, global_defaults),
                         project_defaults), env_cfg), cli)

\* Inputs of _resolve_deploy_params.  Every layer marks its values with its
\* own letter, so that the layer a resolved value comes from can be told.
LayerTags == [global_defaults |-> "g", project_defaults |-> "p", env_cfg |-> "e", cli |-> "c"]
ScalarKeys == {"method", "branch"}

ScalarLayers(tag) == UNION {[S -> {Str(<<tag>>)}] : S \in SUBSET ScalarKeys}
CliScalarLayers == UNION {[S -> {None, Str(<<"c">>)}] : S \in SUBSET ScalarKeys}

EnvTables(tag) == {[k \in S |-> <<tag>>] : S \in (SUBSET {"A", "B"}) \ {{}}}
TableLayers(key, tag) == {EmptyMap} \cup {(key :> Table(m)) : m \in EnvTables(tag)}

Lists(tag) == {<<"x">>, <<tag>>, <<"x", tag>>}
ListLayers(key, tag) == {EmptyMap} \cup {(key :> List(l)) : l \in Lists(tag)}

ParamFamilies ==
    {[g |-> ScalarLayers("g"), p |-> ScalarLayers("p"), e |-> ScalarLayers("e"),
      c |-> CliScalarLayers],
     [g |-> TableLayers("env", "g"), p |-> TableLayers("env", "p"),
      e |-> TableLayers("env", "e"), c |-> TableLayers("env", "c")],
     [g |-> ListLayers("volumes", "g"), p |-> ListLayers("volumes", "p"),
      e |-> ListLayers("volumes", "e"), c |-> ListLayers("volumes", "c")]}

ParamInputs ==
    UNION {[fn : {"input"}, kind : {"params"}, cli : f.c, env_cfg : f.e,
            project_defaults : f.p, global_defaults : f.g] : f \in ParamFamilies}

\* Inputs of resolve_environment: a project with the environments prod and
\* stg (the same settings in both); dev is not defined.
EnvNames == {Production, Staging, Dev}

\* A configured string is built from these parts.
TextParts == {TokAppName, TokAppSlug, TokEnvName, <<"a">>, <<"{">>}
PartSeqs == UNION {[1..n -> TextParts] : n \in 0..MaxParts}
VarPartSeqs == {<<>>, <<TokAppName>>, <<TokAppSlug, <<"a">>>>, <<TokEnvName, TokAppName>>}

RECURSIVE Flat(_)
Flat(parts) == IF parts = <<>> THEN <<>> ELSE Head(parts) \o Flat(Tail(parts))

Project(slug, defaults, env_data) ==
    [app_name |-> <<"n">>, app_slug |-> slug, app_defaults |-> defaults,
     environments |-> [e \in {Production, Staging} |-> env_data]]

CollectionProjects ==
    {Project(NoSlug, Merge(d1, d2), Merge(e1, e2)) :
        d1 \in TableLayers("env", "p"), d2 \in TableLayers("meta", "p"),
        e1 \in TableLayers("env", "e"), e2 \in TableLayers("meta", "e")}
    \cup
    {Project(NoSlug, Merge(d1, d2), Merge(e1, e2)) :
        d1 \in ListLayers("exclude", "p"), d2 \in ListLayers("volumes", "p"),
        e1 \in ListLayers("exclude", "e"), e2 \in ListLayers("volumes", "e")}

\* A project whose subdomain (set at the application or at the environment
\* level) and whose environment variable V are built from the given parts.
TextProject(slug, at_app, fp, vp) ==
    LET sub == ("subdomain" :> Str(Flat(fp)))
        var == ("env" :> Table("V" :> Flat(vp)))
    IN Project(slug, IF at_app THEN sub ELSE EmptyMap,
               IF at_app THEN var ELSE Merge(sub, var))

EnvInputs ==
    {[fn |-> "input", kind |-> "env", config |-> c, env_name |-> e,
      fp |-> <<>>, vp |-> <<>>] : c \in CollectionProjects, e \in EnvNames}
    \cup
    {[fn |-> "input", kind |-> "env",
      config |-> TextProject(x[1], x[2], x[3], x[4]), env_name |-> x[5],
      fp |-> x[3], vp |-> x[4]] :
        x \in {NoSlug, <<"s">>} \X BOOLEAN \X PartSeqs \X VarPartSeqs \X {Production, Staging}}

\* resolve_environment(config, env_name)
ResolveEnvironment ==
    /\ call.fn = "input" /\ call.kind = "env"
    /\ call' = [fn |-> "resolve_environment", config |-> call.config,
                env_name |-> call.env_name, fp |-> call.fp, vp |-> call.vp,
                res |-> resolve_environment(call.config, call.env_name)]
    /\ PureFrame

\* _resolve_deploy_params(cli, env_cfg, project_defaults, global_defaults)
ResolveDeployParams ==
    /\ call.fn = "input" /\ call.kind = "params"
    /\ call' = [fn |-> "_resolve_deploy_params", cli |-> call.cli,
                env_cfg |-> call.env_cfg, project_defaults |-> call.project_defaults,
                global_defaults |-> call.global_defaults,
                res |-> resolve_deploy_params(call.cli, call.env_cfg,
                                              call.project_defaults, call.global_defaults)]
    /\ PureFrame

\* The attributes of an EnvironmentConfig that _env_config_to_dict copies.
EnvDictKeys ==
    {"server", "method", "url", "source", "port", "container_port", "cmd",
     "setup_cmd", "branch", "env_file", "subdomain", "path", "domain"}

\* _env_config_to_dict: the attributes that are not None, and env when it
\* is not empty.
env_config_to_dict(env_cfg) ==
    Merge([k \in {x \in DOMAIN env_cfg.fields \cap EnvDictKeys :
                      env_cfg.fields[x] # None} |-> env_cfg.fields[k]],
          IF env_cfg.env # EmptyMap THEN ("env" :> Table(env_cfg.env)) ELSE EmptyMap)

UrlKeys == {"url", "subdomain", "path"}

\* The deploy command for one name (without --all-envs): the name is
\* resolved as an environment only when the project defines it, and is the
\* application name otherwise; the parameters are cascaded and handed to
\* _deploy_from_params, which stops when no URL can be formed and
\* dispatches the deploy under app_name otherwise.
deploy(name, cli, has_project, project, global_defaults) ==
    LET is_env == has_project /\ name \in DOMAIN project.environments
        resolved_env == resolve_environment(project, name)
        env_overrides == IF is_env THEN env_config_to_dict(resolved_env) ELSE EmptyMap
        app_name == IF is_env THEN resolved_env.app_name ELSE name
        project_defaults == IF has_project THEN project.app_defaults ELSE EmptyMap
        params == resolve_deploy_params(cli, env_overrides, project_defaults,
                                        global_defaults)
    IN [resolved |-> is_env,
        app_name |-> app_name,
        params |-> params,
        error |-> IF UrlKeys \cap DOMAIN params = {} THEN "url_required" ELSE "none",
        dispatched |-> UrlKeys \cap DOMAIN params # {}]

\* Inputs of the deploy command: a directory with or without a project
\* file, a name that is or is not one of its environments, and a URL given
\* on the command line, by the project, or not at all.
DeployInputs ==
    {[fn |-> "input", kind |-> "deploy", name |-> n, cli |-> c,
      has_project |-> h, project |-> TextProject(NoSlug, a, fp, <<>>)] :
        n \in EnvNames, c \in {EmptyMap, "url" :> Str(UrlSub), "url" :> None},
        h \in BOOLEAN, a \in BOOLEAN, fp \in {<<>>, <<TokAppName>>}}

\* appgarden deploy NAME
Deploy ==
    /\ call.fn = "input" /\ call.kind = "deploy"
    /\ call' = [fn |-> "deploy", name |-> call.name, cli |-> call.cli,
                has_project |-> call.has_project, project |-> call.project,
                res |-> deploy(call.name, call.cli, call.has_project,
                               call.project, EmptyMap)]
    /\ PureFrame


InitCascade == InitPure /\ call \in ParamInputs \cup EnvInputs \cup DeployInputs
NextCascade == ResolveEnvironment \/ ResolveDeployParams \/ Deploy
SpecCascade == InitCascade /\ [][NextCascade]_vars

----------------------------------------------------------------------------
(* SpecStore: calls of the state-store functions on one document *)

\* The document is absent (before server init; tunnels/active.json before
\* the first tunnel) or holds the empty document server init writes.
InitStore ==
    /\ InitShared
    /\ ports = empty_ports_state
    /\ garden = EmptyMap
    /\ budget = [ops |-> 0, max |-> 0, fails |-> 0]
    /\ fs \in [doc : {Missing, FileOf(EmptyDoc)}, tmp : {Missing}]
    /\ lock = 0
    /\ sc = [c \in StoreClients |-> IdleCall]
    /\ docKind \in DocKinds
    /\ sops = 0
    /\ TunnelsIdle
SpecStore == InitStore /\ [][NextStore]_vars

----------------------------------------------------------------------------
(* SpecTunnel: tunnels opened, closed and cleaned on a host without apps *)

InitTunnel ==
    /\ InitShared
    /\ ports = empty_ports_state
    /\ garden = EmptyMap
    /\ budget = [ops |-> 0, max |-> 0, fails |-> 0]
    /\ StoreIdle
    /\ TunnelsIdle
SpecTunnel == InitTunnel /\ [][NextTunnel]_vars

\* SpecClose: the tunnel operations on a host on which application "a" is
\* deployed.
InitClose ==
    /\ InitHostIn({Seeded})
    /\ call = NoPure
    /\ budget = [ops |-> 0, max |-> 0, fails |-> 0]
    /\ StoreIdle
    /\ TunnelsIdle
SpecClose == InitClose /\ [][NextTunnel]_vars

\* SpecRouting: a host on which either one client deploys, removes and
\* redeploys applications, or tunnels are opened, closed and cleaned.
InitRouting ==
    \/ InitShared /\ StoreIdle /\ TunnelsIdle
          /\ budget = [ops |-> 0, max |-> MaxRoutingOps, fails |-> 0]
    \/ InitTunnel
NextRouting ==
    \/ budget.max > 0 /\ NextSeq
    \/ budget.max = 0 /\ NextTunnel
SpecRouting == InitRouting /\ [][NextRouting]_vars

\* The locked calls exist for garden.json and ports.json, which server
\* init has written; the two go through the same code, so one is followed.
InitStoreLocked ==
    /\ InitStore
    /\ docKind = "garden"
    /\ fs.doc = FileOf(EmptyDoc)

\* Time passes and every call that can take a step eventually takes it.
SpecStoreLive ==
    /\ InitStoreLocked /\ [][NextStore]_vars
    /\ WF_vars(Tick)
    /\ \A c \in StoreClients : WF_vars(SAcquire(c) \/ SCommand(c) \/ STimeout(c))

----------------------------------------------------------------------------
(* Claims about the pure helpers, checked under SpecPorts *)


\* C3: allocating twice in a row for the same application returns the same
\* port both times without failing, and the second call leaves the registry
\* (and so next_port) unchanged.
C3_AllocateTwiceSamePort ==
    [][(/\ last.op = "allocate" /\ last.ok
        /\ last'.op = "allocate" /\ last'.app = last.app)
          => (/\ last'.ok
              /\ last'.port = last.port
              /\ ports' = ports)]_vars

\* C4: next_port never decreases, and an allocate for an application that
\* owns no port never returns a port number handed out earlier (by allocate
\* or register), released or not.
C4_NoPortReuse ==
    [][/\ ports'.next_port >= ports.next_port
       /\ (last'.op = "allocate" /\ last'.ok) => last'.port \notin issued]_vars

\* C4 witness: an allocate returned a fresh number while a lower port that
\* had been handed out by allocate is free again after its release.
C4_Witness ==
    /\ last.op = "allocate" /\ last.ok
    /\ \E q \in issued : /\ q \notin Keys(ports)
                         /\ q >= PORT_RANGE_START
                         /\ q < last.port

\* C5: each application name is the value of at most one entry of the
\* allocated map, and next_port is greater than every port key present.
C5_RegistryInvariant ==
    /\ \A app \in PortApps : Cardinality(OwnedPorts(ports, app)) <= 1
    /\ \A q \in Keys(ports) : q < ports.next_port

\* The step is a call of helper h (a repeated call with the same arguments
\* and the same outcome on an unchanged registry is a stuttering step).
HelperStep(h) == last'.op = h /\ (last' # last \/ ports' # ports)

\* The application that owns port q in registry p.
OwnersOf(p, q) == {p.allocated[i].name : i \in {j \in 1..Len(p.allocated) : p.allocated[j].port = q}}

\* C22: allocate for an application that owns no port returns next_port,
\* records it for the application, increases next_port by one and leaves
\* the other mappings alone; on the empty registry it returns 10000, and
\* two successive successful allocations return consecutive ports.
C22_AllocateTakesNextPort ==
    [][HelperStep("allocate") =>
         /\ OwnedPorts(ports, last'.app) = {} =>
               /\ last'.ok
               /\ last'.port = ports.next_port
               /\ ports'.next_port = ports.next_port + 1
               /\ OwnedPorts(ports', last'.app) = {ports.next_port}
               /\ \A x \in PortApps \ {last'.app} :
                     OwnedPorts(ports', x) = OwnedPorts(ports, x)
         /\ ports = empty_ports_state => last'.port = 10000
         /\ (last.op = "allocate" /\ last.ok /\ last'.ok)
               => last'.port = last.port + 1]_vars

\* C22 witness: three applications were allocated 10000, 10001 and 10002,
\* the last of them by the most recent call.
C22_Witness ==
    /\ last.op = "allocate" /\ last.ok /\ last.port = PORT_RANGE_START + 2
    /\ {PORT_RANGE_START, PORT_RANGE_START + 1, PORT_RANGE_START + 2} \subseteq Keys(ports)
    /\ \A x \in PortApps : OwnedPorts(ports, x) # {}

\* C23: register(r, p, app) fails exactly when p is mapped to another
\* application, and then leaves the registry unchanged; in every other case
\* (p mapped to app itself included) it succeeds and p is mapped to app.
C23_RegisterConflictOnlyForOthers ==
    [][HelperStep("register") =>
         /\ ~last'.ok <=> (OwnersOf(ports, last'.arg) \ {last'.app} # {})
         /\ ~last'.ok => ports' = ports
         /\ last'.ok => OwnersOf(ports', last'.arg) = {last'.app}]_vars

\* C24: a successful register(r, p, app) leaves next_port unchanged when
\* p < r.next_port and sets it to p + 1 otherwise; no register lowers it.
C24_RegisterAdvancesNextPort ==
    [][HelperStep("register") =>
         /\ ports'.next_port >= ports.next_port
         /\ last'.ok =>
               ports'.next_port = IF last'.arg < ports.next_port
                                     THEN ports.next_port
                                     ELSE last'.arg + 1]_vars

\* C24 witness: a port below next_port was registered after a port at or
\* above next_port had moved the counter behind it.
C24_Witness ==
    /\ last.op = "register" /\ last.ok
    /\ last.arg < PORT_RANGE_START
    /\ \E q \in Keys(ports) : q > PORT_RANGE_START /\ ports.next_port = q + 1

\* C25: release(r, app) removes exactly one entry, whose value is app, and
\* leaves next_port and every other mapping unchanged; when app owns no
\* port it fails and the registry is unchanged.
C25_ReleaseRemovesOneEntry ==
    [][HelperStep("release") =>
         IF OwnedPorts(ports, last'.app) = {}
            THEN ~last'.ok /\ ports' = ports
            ELSE /\ last'.ok
                 /\ ports'.next_port = ports.next_port
                 /\ \E q \in OwnedPorts(ports, last'.app) :
                       /\ Keys(ports') = Keys(ports) \ {q}
                       /\ \A r \in Keys(ports') : OwnersOf(ports', r) = OwnersOf(ports, r)]_vars

\* C25 witness: a release succeeded and left the entries of other
\* applications, and a second entry of the same application, in place.
C25_Witness ==
    /\ last.op = "release" /\ last.ok
    /\ OwnedPorts(ports, last.app) # {}
    /\ \E x \in PortApps \ {last.app} : OwnedPorts(ports, x) # {}

----------------------------------------------------------------------------
(* Claims about the client operations *)

\* Step s of client c's current operation ran and did not fail.
Completed(c, s) ==
    /\ \E i \in 1..Len(ran[c]) : ran[c][i] = s
    /\ err[c] # s
    /\ s \notin swallowed[c]

EntryOf(g, n) == IF n \in DOMAIN g THEN {g[n]} ELSE {}

\* C1: two client invocations that each ran allocate_port for different
\* application names hold different port numbers, and the port registry
\* contains both mappings (no release of either name has started).
C1_ConcurrentAllocateDistinct ==
    \A c1, c2 \in Clients :
        (/\ c1 # c2
         /\ op[c1].kind = "deploy" /\ op[c2].kind = "deploy"
         /\ Completed(c1, "d_ports_write") /\ Completed(c2, "d_ports_write")
         /\ op[c1].name # op[c2].name
         /\ {op[c1].name, op[c2].name} \cap relStarted = {})
            => (/\ loc[c1].port # loc[c2].port
                /\ loc[c1].port \in OwnedPorts(ports, op[c1].name)
                /\ loc[c2].port \in OwnedPorts(ports, op[c2].name))

GardenWritePcs == {"d_register", "r_garden_write", "p_write"}

\* C2: a registry write of deploy, remove or redeploy for one application
\* name never changes, creates or deletes the record of another name, so no
\* write discards what a concurrent operation on another name wrote.
C2_NoLostRegistryUpdate ==
    [][\A c \in Clients :
          (pc[c] \in GardenWritePcs /\ pc'[c] # pc[c])
             => \A n \in Names \ {op[c].name} :
                   EntryOf(garden', n) = EntryOf(garden, n)]_vars

Domains == {parse_url(u).domain : u \in Urls}

SubdirAppsOn(g, d) ==
    {n \in DOMAIN g : parse_url(g[n].url).domain = d /\ parse_url(g[n].url).has_path}

\* C6: after any sequence of completed, non-overlapping deploy and remove
\* operations, for every domain the merged routing file exists exactly when
\* a subdirectory application is registered on the domain, and it references
\* exactly the subdirectory applications registered on it.
C6_MergedFileMatchesRegistry ==
    (pc[1] \in Rest /\ ~anyFailed /\ op[1].kind # "redeploy")
        => \A d \in Domains :
              LET reg == SubdirAppsOn(garden, d)
                  f == safe_domain(d)
              IN /\ (f \in DOMAIN caddy.subdir) <=> (reg # {})
                 /\ (f \in DOMAIN caddy.subdir)
                       => {e.name : e \in caddy.subdir[f].apps} = reg

TeardownSteps == {"r_stop", "r_disable", "r_rm_unit", "r_reload"}

\* C7: in remove, a failure of stopping or disabling the unit, of deleting
\* the unit definition or of reloading the supervisor never aborts the
\* operation before the routing, port and registry steps.
C7_TeardownNeverAborts ==
    \A c \in Clients :
        (op[c].kind = "remove" /\ pc[c] = "failed") => err[c] \notin TeardownSteps

\* C8: remove tolerates a failing stop or disable command and a release
\* that finds no port owned by the name: none of them aborts the operation,
\* and a remove that completes has deleted the registry entry of the name.
C8_RemoveToleratesTeardownFailures ==
    \A c \in Clients :
        op[c].kind = "remove"
           => /\ pc[c] = "failed" => err[c] \notin {"r_stop", "r_disable", "r_release"}
              /\ pc[c] = "done" => op[c].name \notin DOMAIN garden

\* C8 witness: a remove completed although the stop command failed and the
\* release found no port owned by the name; the entry is gone.
C8_Witness ==
    \E c \in Clients :
        /\ op[c].kind = "remove" /\ pc[c] = "done"
        /\ {"r_stop", "r_release"} \subseteq swallowed[c]
        /\ op[c].name \notin DOMAIN garden

\* C9: every step of remove(name) leaves the registry records and the port
\* mappings of the other applications unchanged, and when remove completes
\* name is absent from the application registry, owns no entry of the port
\* registry and, for a subdomain application, has no routing file.
C9_RemoveCleansUp ==
    [][\A c \in Clients :
          (op[c].kind = "remove" /\ pc[c] \notin Rest /\ pc'[c] # pc[c])
             => /\ \A n \in Names \ {op[c].name} :
                      /\ EntryOf(garden', n) = EntryOf(garden, n)
                      /\ OwnedPorts(ports', n) = OwnedPorts(ports, n)
                /\ pc'[c] = "done"
                      => /\ op[c].name \notin DOMAIN garden'
                         /\ OwnedPorts(ports', op[c].name) = {}
                         /\ ~parse_url(loc[c].garden[op[c].name].url).has_path
                               => op[c].name \notin DOMAIN caddy'.app]_vars

ForwardSteps ==
    {"d_source", "d_ports_read", "d_allocate", "d_ports_write", "d_build",
     "d_compose", "d_unit_write", "d_unit_reload", "d_unit_enable",
     "d_unit_restart", "d_garden_read", "d_caddy_write", "d_caddy_reload"}

\* C10: deploy ignores no failure; when a forward step fails the operation
\* aborts at that step, no later step runs and the registry write of the
\* ApplicationRecord is never reached.
C10_DeployFailurePropagates ==
    \A c \in Clients :
        op[c].kind = "deploy"
           => /\ swallowed[c] = {}
              /\ (pc[c] = "failed" /\ err[c] \in ForwardSteps)
                    => /\ ran[c][Len(ran[c])] = err[c]
                       /\ \A i \in 1..Len(ran[c]) : ran[c][i] # "d_register"

\* C10 witness: a deploy of an unregistered name failed at the proxy reload,
\* after its routing file was written; the name is still unregistered.
C10_Witness ==
    \E c \in Clients :
        /\ op[c].kind = "deploy" /\ pc[c] = "failed" /\ err[c] = "d_caddy_reload"
        /\ op[c].name \notin DOMAIN garden
        /\ Completed(c, "d_caddy_write")

\* C19: every step of redeploy(name) leaves the record of every other
\* application unchanged and changes nothing of the record of name except
\* updated_at (created_at, method, url and port stay as they were).
C19_RedeployChangesOnlyUpdatedAt ==
    [][\A c \in Clients :
          (op[c].kind = "redeploy" /\ pc[c] \notin Rest /\ pc'[c] # pc[c])
             => /\ \A n \in Names \ {op[c].name} :
                      EntryOf(garden', n) = EntryOf(garden, n)
                /\ (op[c].name \in DOMAIN garden') <=> (op[c].name \in DOMAIN garden)
                /\ op[c].name \in DOMAIN garden
                      => [garden'[op[c].name] EXCEPT !.updated_at =
                             garden[op[c].name].updated_at] = garden[op[c].name]]_vars

\* C19 witness: a redeploy completed and set updated_at of the record to a
\* time later than its created_at.
C19_Witness ==
    \E c \in Clients :
        /\ op[c].kind = "redeploy" /\ pc[c] = "done"
        /\ op[c].name \in DOMAIN garden
        /\ garden[op[c].name].updated_at # garden[op[c].name].created_at

\* C20: no step of redeploy changes whether the unit of the application is
\* running: a stopped application stays stopped, a running one stays running.
C20_RedeployKeepsPhase ==
    [][\A c \in Clients :
          (op[c].kind = "redeploy" /\ pc[c] \notin Rest /\ pc'[c] # pc[c])
             => units'[op[c].name].active = units[op[c].name].active]_vars

----------------------------------------------------------------------------
(* Claims about the state store, checked under SpecStore / SpecStoreLive *)

ReadCalls == {"read", "read_locked"}

\* C15: a client that reads a state document while another client writes it
\* observes a complete document (the previous or the new one), never a
\* partially written one.
C15_ReadsSeeCompleteDocuments ==
    \A c \in StoreClients :
        (sc[c].pc = "done" /\ sc[c].op \in ReadCalls)
           => (~sc[c].saw.present \/ Loads(sc[c].saw.chunks).ok)

\* C16: reading a state document that does not exist on the host returns
\* the empty document of its shape instead of failing.
C16_MissingDocumentReadsEmpty ==
    \A c \in StoreClients :
        (sc[c].pc = "done" /\ sc[c].op = "read" /\ ~sc[c].saw.present)
           => sc[c].res = [status |-> "ok", val |-> EmptyDoc]

\* C17: reading a state document that exists but does not parse fails with
\* the corrupted-state error for every kind of document; an empty document
\* is never returned in its place.
C17_UnparseableDocumentFails ==
    \A c \in StoreClients :
        (/\ sc[c].pc = "done" /\ sc[c].op \in ReadCalls
         /\ sc[c].saw.present /\ ~Loads(sc[c].saw.chunks).ok)
           => sc[c].res.status = "corrupted"

\* C18: a locked read or write never waits for the lock longer than the
\* timeout and never waits forever; when the timeout has passed the call
\* ends with an error, and a locked write that ended this way has not
\* touched the target document.
C18_LockAcquisitionBounded ==
    /\ [](\A c \in StoreClients : sc[c].waited <= LOCK_TIMEOUT)
    /\ \A c \in StoreClients : (sc[c].pc = "wait") ~> (sc[c].pc # "wait")
    /\ [][\A c \in StoreClients :
             (sc[c].pc = "wait" /\ sc[c].waited = LOCK_TIMEOUT /\ sc'[c].pc # "wait")
                => sc'[c].res.status = "lock_timeout"]_vars
    /\ [](\A c \in StoreClients :
             (sc[c].op = "write_locked" /\ sc[c].res.status = "lock_timeout")
                => ~sc[c].touched)

\* C18 witness: a locked write gave up after the timeout while another
\* process held the lock; its upload is in the .tmp file and the document
\* still holds what server init wrote.
C18_Witness ==
    \E c \in StoreClients :
        /\ sc[c].op = "write_locked" /\ sc[c].pc = "done"
        /\ sc[c].res.status = "lock_timeout" /\ sc[c].waited = LOCK_TIMEOUT
        /\ lock = External
        /\ fs.tmp = FileOf(sc[c].val)
        /\ fs.doc = FileOf(EmptyDoc)

----------------------------------------------------------------------------
(* Claims about tunnels, checked under SpecTunnel *)

\* C11: an open_tunnel that entered the blocking wait has run the cleanup
\* exactly once when it returns or raises, whatever ended the wait
\* (interrupt, the tunnel process ending, an exception during the wait or
\* while the process is stopped).
C11_CleanupOnEveryExit ==
    \A t \in Tunnels :
        (tp[t].entered /\ tp[t].pc \in {"closed", "raised"}) => tp[t].cleanups = 1

\* C12: a failure of a sub-step of the tunnel cleanup (removing the routing
\* file, reloading the proxy, releasing the port, deleting the record) never
\* makes the cleanup raise, and a cleanup that ended has run all four.
C12_CleanupBestEffort ==
    /\ cl.pc = "c_raised" => cl.failed \notin CleanupSubSteps
    /\ cl.pc = "c_done" => CleanupSubSteps \subseteq cl.ran

\* Tunnel t is, in host state h, as it was in host state pre.
Untouched(t, h, pre) ==
    /\ EntryOf(h.tunnels, t) = EntryOf(pre.tunnels, t)
    /\ OwnedPorts(h.ports, t) = OwnedPorts(pre.ports, t)
    /\ (t \in h.tfiles) <=> (t \in pre.tfiles)

\* Nothing of tunnel t is left in host state h.
Gone(t, h) ==
    /\ t \notin DOMAIN h.tunnels
    /\ OwnedPorts(h.ports, t) = {}
    /\ t \notin h.tfiles

\* C13: when cleanup_stale returns, every tunnel of the registry was
\* probed, the returned ids are exactly the tunnels whose probe did not
\* report active, a tunnel whose probe reported active is untouched, and
\* (unless a command of its cleanup failed) a returned tunnel is gone.
C13_StaleCleanupExact ==
    [][(adm.op = "stale" /\ adm.pc # "done" /\ adm'.pc = "done")
          => /\ DOMAIN adm'.probe = DOMAIN adm.pre.tunnels
             /\ adm'.cleaned = {t \in DOMAIN adm'.probe : adm'.probe[t] # "active"}
             /\ \A t \in DOMAIN adm.pre.tunnels \cap DOMAIN adm'.probe :
                   adm'.probe[t] = "active" => Untouched(t, Pre', adm.pre)
             /\ adm'.swallowed = {} => \A t \in adm'.cleaned : Gone(t, Pre')]_vars

\* C14: when close(tunnel_id) returns for a registered tunnel, the records,
\* ports and routing files of the other tunnels are as before, and (unless
\* a command of the cleanup failed) nothing of the tunnel is left.
C14_CloseRemovesOnlyTheTunnel ==
    [][(/\ adm.op = "close" /\ adm.pc # "done" /\ adm'.pc = "done"
        /\ adm.tid \in DOMAIN adm.pre.tunnels)
          => /\ \A t \in Tunnels \ {adm.tid} : Untouched(t, Pre', adm.pre)
             /\ adm'.swallowed = {} => Gone(adm.tid, Pre')]_vars

----------------------------------------------------------------------------
(* Claims about status and list, checked under SpecStatus *)

StatusKinds == {"status", "list"}

\* C21: no step of status(name) or list() changes the registries, the
\* routing files or the units; a failing probe of a non-static application
\* never makes the call raise and is reported as "inactive"; a static
\* application is reported as "serving" and is never probed.
C21_StatusReadOnlyAndLenient ==
    /\ [](\A c \in Clients : op[c].kind \in StatusKinds =>
            /\ err[c] # "t_probe"
            /\ \A n \in DOMAIN loc[c].status :
                  /\ loc[c].garden[n].method = "static"
                        => loc[c].status[n] = "serving" /\ n \notin loc[c].probed
                  /\ loc[c].garden[n].method # "static"
                        => n \in loc[c].probed
                  /\ n \in loc[c].pfailed => loc[c].status[n] = "inactive")
    /\ [][(\E c \in Clients : op'[c].kind \in StatusKinds /\ pc[c] # pc'[c])
            => UNCHANGED <<ports, garden, caddy, units>>]_vars

\* C21 witness: a list() has returned after reporting a static application
\* as serving and a non-static one, whose probe failed, as inactive.
C21_Witness ==
    \E c \in Clients :
        /\ op[c].kind = "list" /\ pc[c] = "done"
        /\ \E n \in DOMAIN loc[c].status : loc[c].status[n] = "serving"
        /\ \E n \in loc[c].pfailed : loc[c].status[n] = "inactive"

----------------------------------------------------------------------------
(* Claims about parse_url, checked under SpecUrl *)

Contains(s, ch) == \E i \in 1..Len(s) : s[i] = ch

\* The URL without its scheme and without its trailing slashes.
Remainder(url) ==
    LET body == IF StartsWith(url, HTTPS) THEN SubSeq(url, Len(HTTPS) + 1, Len(url))
                ELSE IF StartsWith(url, HTTP) THEN SubSeq(url, Len(HTTP) + 1, Len(url))
                ELSE url
    IN RStrip(body, "/")

\* s is one path segment.
IsSegment(s) == ~Contains(s, "/")

\* C26: parse_url returns (remainder, None) when the remainder has no "/",
\* and otherwise the text before the first "/" as domain and the first path
\* segment after it as path, whatever the number of segments.
C26_ParseUrlFirstSegment ==
    call.fn = "parse_url" =>
        LET R == Remainder(call.arg)
        IN IF ~Contains(R, "/")
              THEN call.res = [domain |-> R, has_path |-> FALSE, path |-> <<>>]
              ELSE /\ call.res.has_path
                   /\ ~Contains(call.res.domain, "/")
                   /\ StartsWith(R, call.res.domain \o <<"/">>)
                   /\ IsSegment(call.res.path)
                   /\ StartsWith(R, call.res.domain \o <<"/">> \o call.res.path)
                   /\ LET n == Len(call.res.domain) + 1 + Len(call.res.path)
                      IN n < Len(R) => R[n + 1] = "/"

\* C26 (amended): as above, but path is everything after the first "/" of
\* the remainder, the further segments and their separators included, so
\* that domain, "/" and path together are the remainder.
C26_ParseUrlWholePath ==
    call.fn = "parse_url" =>
        LET R == Remainder(call.arg)
        IN IF ~Contains(R, "/")
              THEN call.res = [domain |-> R, has_path |-> FALSE, path |-> <<>>]
              ELSE /\ call.res.has_path
                   /\ ~Contains(call.res.domain, "/")
                   /\ call.res.domain \o <<"/">> \o call.res.path = R

\* C26 witness: a URL with a scheme and two path segments was parsed.
C26_Witness ==
    /\ call.fn = "parse_url"
    /\ StartsWith(call.arg, HTTPS)
    /\ call.res.has_path
    /\ call.res.domain # <<>>
    /\ Contains(call.res.path, "/")

----------------------------------------------------------------------------
(* Claims about the configuration cascade, checked under SpecCascade *)

\* The layers of a _resolve_deploy_params call, lowest precedence first.
CallLayers ==
    <<DEPLOY_DEFAULTS, call.global_defaults, call.project_defaults, call.env_cfg, call.cli>>

\* The layers of seq that set key k to something other than None.
Setters(seq, k) == {i \in 1..Len(seq) : k \in DOMAIN seq[i] /\ seq[i][k].t # "none"}

Highest(S) == CHOOSE i \in S : \A j \in S : j <= i

\* C27: every scalar parameter resolves to the value of the highest layer
\* that sets it (built-in < global < project < environment < caller); a
\* layer where the key is absent or None overrides nothing, and a key no
\* layer sets is not in the result.
C27_ScalarPrecedence ==
    call.fn = "_resolve_deploy_params" =>
        \A k \in ScalarKeys \cup {"container_port"} :
            LET S == Setters(CallLayers, k)
            IN IF S = {} THEN k \notin DOMAIN call.res
               ELSE k \in DOMAIN call.res /\ call.res[k] = CallLayers[Highest(S)][k]

\* C27 witness: the caller passes branch = None, the environment and the
\* project both set branch, and the environment's value is the result.
C27_Witness ==
    /\ call.fn = "_resolve_deploy_params"
    /\ "branch" \in DOMAIN call.cli /\ call.cli["branch"] = None
    /\ "branch" \in DOMAIN call.env_cfg
    /\ "branch" \in DOMAIN call.project_defaults
    /\ "method" \in DOMAIN call.global_defaults
    /\ call.res["branch"] = Str(<<"e">>)

\* The tables the layers of seq give for key k, an empty table where a
\* layer has none.
TablesOf(seq, k) == [i \in 1..Len(seq) |-> Get(seq[i], k, Table(EmptyMap)).m]

\* m is the shallow merge of the tables tabs: it has the keys of all of
\* them, each with the value of the last table that has the key.
IsShallowMerge(m, tabs) ==
    /\ DOMAIN m = UNION {DOMAIN tabs[i] : i \in 1..Len(tabs)}
    /\ \A k \in DOMAIN m :
          m[k] = tabs[Highest({i \in 1..Len(tabs) : k \in DOMAIN tabs[i]})][k]

\* C28: the env and meta tables of the result are the shallow merge of the
\* layers' tables: of application defaults and environment in
\* resolve_environment, of all the layers in _resolve_deploy_params.
C28_TablesShallowMerged ==
    /\ (call.fn = "resolve_environment" /\ call.res.ok /\ call.vp = <<>>) =>
          LET seq == <<call.config.app_defaults, call.config.environments[call.env_name]>>
          IN /\ IsShallowMerge(call.res.env, TablesOf(seq, "env"))
             /\ IsShallowMerge(call.res.meta, TablesOf(seq, "meta"))
    /\ call.fn = "_resolve_deploy_params" =>
          IsShallowMerge(Get(call.res, "env", Table(EmptyMap)).m,
                         TablesOf(CallLayers, "env"))

\* The lists the layers of seq give for key k, concatenated in layer order.
RECURSIVE ConcatOf(_, _)
ConcatOf(seq, k) ==
    IF seq = <<>> THEN <<>>
    ELSE Get(Head(seq), k, List(<<>>)).l \o ConcatOf(Tail(seq), k)

FirstAt(l, x) == CHOOSE i \in 1..Len(l) : l[i] = x /\ \A j \in 1..(i - 1) : l[j] # x

\* r holds every item of l once, in the order of the first occurrences.
IsFirstOccurrences(r, l) ==
    /\ {r[i] : i \in 1..Len(r)} = {l[i] : i \in 1..Len(l)}
    /\ \A i, j \in 1..Len(r) : i < j => FirstAt(l, r[i]) < FirstAt(l, r[j])

\* C29: the exclude and volumes lists of the result are the layers' lists
\* concatenated in layer order with later duplicates dropped: of
\* application defaults and environment in resolve_environment, of all the
\* layers in _resolve_deploy_params.
C29_ListsConcatenated ==
    /\ (call.fn = "resolve_environment" /\ call.res.ok) =>
          LET seq == <<call.config.app_defaults, call.config.environments[call.env_name]>>
          IN /\ IsFirstOccurrences(call.res.exclude, ConcatOf(seq, "exclude"))
             /\ IsFirstOccurrences(call.res.volumes, ConcatOf(seq, "volumes"))
    /\ call.fn = "_resolve_deploy_params" =>
          IsFirstOccurrences(Get(call.res, "volumes", List(<<>>)).l,
                             ConcatOf(CallLayers, "volumes"))

\* What a part of a configured string stands for.
PartValue(part, config, env_name) ==
    CASE part = TokAppName -> config.app_name
      [] part = TokAppSlug -> IF config.app_slug = NoSlug THEN config.app_name
                              ELSE config.app_slug
      [] part = TokEnvName -> env_name
      [] OTHER -> part

RECURSIVE Expanded(_, _, _)
Expanded(parts, config, env_name) ==
    IF parts = <<>> THEN <<>>
    ELSE PartValue(Head(parts), config, env_name) \o Expanded(Tail(parts), config, env_name)

\* C30: in the result of resolve_environment a string field and a value of
\* env are the configured string with every {app.name}, {app.slug} and
\* {env.name} replaced (the slug, or the application name when no slug is
\* configured; the name of the environment resolved) and the rest as it was.
C30_PlaceholdersReplaced ==
    (call.fn = "resolve_environment" /\ call.res.ok
        /\ "subdomain" \in DOMAIN call.res.fields /\ "V" \in DOMAIN call.res.env) =>
        /\ call.res.fields["subdomain"].s = Expanded(call.fp, call.config, call.env_name)
        /\ call.res.env["V"] = Expanded(call.vp, call.config, call.env_name)

\* C30 witness: with a slug configured, a subdomain built from {app.slug}
\* and a literal, and a variable built from {env.name} and {app.name}, were
\* resolved for the environment stg.
C30_Witness ==
    /\ call.fn = "resolve_environment" /\ call.res.ok
    /\ call.config.app_slug # NoSlug
    /\ call.env_name = Staging
    /\ call.fp = <<TokAppSlug, <<"a">>>>
    /\ call.vp = <<TokEnvName, TokAppName>>
    /\ call.res.fields["subdomain"].s = <<"s", "a">>

----------------------------------------------------------------------------
(* Claims about the command line and server initialisation                *)

\* C31: resolving an environment name that the project does not define
\* fails with an error that lists the defined names, yields no resolved
\* environment, and the deploy command given such a name in a directory
\* with a project file dispatches no deploy under that name.
C31_UndefinedEnvironmentRejected ==
    /\ (call.fn = "resolve_environment"
          /\ call.env_name \notin DOMAIN call.config.environments)
        => (~call.res.ok /\ call.res.available = DOMAIN call.config.environments)
    /\ (call.fn = "deploy" /\ call.has_project
          /\ call.name \notin DOMAIN call.project.environments)
        => ~call.res.dispatched

\* C32: init_server leaves an existing garden.json and ports.json as they
\* are: on a host that holds applications or allocated ports, no step of
\* init_server changes the two registries.
C32_InitPreservesStateFiles ==
    [][\A c \in Clients :
          (op[c].kind = "init" /\ pc[c] # pc'[c]
              /\ (garden # EmptyMap \/ ports # empty_ports_state))
          => UNCHANGED <<garden, ports>>]_vars

----------------------------------------------------------------------------
(* Claims about routing files, ports and URLs under concurrent clients    *)

\* C33: when two clients have each completed a deploy of a different
\* subdirectory application on the same domain, the merged routing file of
\* the domain references both applications.
C33_ConcurrentSubdirDeploysBothRouted ==
    \A c1, c2 \in Clients :
        (/\ c1 # c2
         /\ op[c1].kind = "deploy" /\ pc[c1] = "done"
         /\ op[c2].kind = "deploy" /\ pc[c2] = "done"
         /\ op[c1].name # op[c2].name /\ op[c1].url # op[c2].url
         /\ parse_url(op[c1].url).has_path /\ parse_url(op[c2].url).has_path
         /\ parse_url(op[c1].url).domain = parse_url(op[c2].url).domain)
        => LET f == safe_domain(parse_url(op[c1].url).domain)
           IN /\ f \in DOMAIN caddy.subdir
              /\ {op[c1].name, op[c2].name} \subseteq {e.name : e \in caddy.subdir[f].apps}

\* How the merged template routes an entry: a file server for the static
\* method, a reverse proxy to the port for every other method.
RoutedAs(method) == IF method = "static" THEN "static" ELSE "proxy"

\* C34: the merged routing file that a subdirectory deploy writes holds an
\* entry for the application being deployed with the path, the port and
\* the method of the deploy in progress, whether or not the registry
\* already holds a record of that name.
C34_MergedFileHasCurrentDeploy ==
    [][\A c \in Clients :
          (/\ op[c].kind = "deploy" /\ parse_url(op[c].url).has_path
           /\ pc[c] = "d_caddy_write" /\ pc'[c] = "d_caddy_reload")
          => LET u == parse_url(op[c].url)
                 f == safe_domain(u.domain)
             IN /\ f \in DOMAIN caddy'.subdir
                /\ \E e \in caddy'.subdir[f].apps :
                      /\ e.name = op[c].name
                      /\ e.path = u.path
                      /\ e.port = loc[c].port
                      /\ RoutedAs(e.method) = RoutedAs(op[c].method)]_vars

FileSteps == {"d_caddy_write", "r_caddy"}
ReloadSteps == {"d_caddy_reload", "r_caddy_reload"}

C36_DistinctHostPorts ==
    \A n, m \in DOMAIN garden :
        (n # m /\ garden[n].port # NoPort /\ garden[m].port # NoPort)
           => garden[n].port # garden[m].port

\* C37: whenever no operation is in progress, every allocated port is
\* owned by a name of the application registry or of the tunnel registry;
\* in particular a deploy or a tunnel open that failed has not left its
\* port allocated.
C37_AllocatedPortsAreOwned ==
    ((\A c \in Clients : pc[c] \in Rest) /\ ~Busy)
        => \A i \in 1..Len(ports.allocated) :
              ports.allocated[i].name \in DOMAIN garden \cup DOMAIN tunnels

\* C38: when close(tunnel_id) returns for an id that the tunnel registry
\* did not hold, the port registry is as it was before the call; and no
\* close releases a port that a deployed application owns, even when the
\* application's name is the id.
C38_CloseUnknownIdKeepsPorts ==
    [][(adm.op = "close" /\ adm.pc = "a_close" /\ adm'.pc \in {"done", "raised"})
          => /\ adm.tid \notin DOMAIN adm.pre.tunnels => ports' = adm.pre.ports
             /\ \A n \in DOMAIN garden :
                   OwnedPorts(ports', n) = OwnedPorts(adm.pre.ports, n)]_vars

\* C40: no two records of the registry have the same public URL (the same
\* domain and path), so a deploy of a second name to a URL that is already
\* served does not end with both names registered.
C40_DistinctPublicUrls ==
    \A n, m \in DOMAIN garden :
        n # m => parse_url(garden[n].url) # parse_url(garden[m].url)

----------------------------------------------------------------------------
(* Claims about concurrent locked writes, checked under SpecStore *)

\* C39: when two clients write the same document with the locked write, a
\* write that reports success has installed exactly its own content, and
\* no write fails at its rename while the document holds its content,
\* installed by the rename of the other writer.
C39_LockedWritesInstallOwnContent ==
    [][\A c \in StoreClients :
          (sc[c].op = "write_locked" /\ sc[c].pc = "locked" /\ sc'[c].pc = "done")
          => /\ sc'[c].res.status = "ok" => fs'.doc = FileOf(sc[c].val)
             /\ sc'[c].res.status # "ok" =>
                   ~\E d \in StoreClients \ {c} :
                        /\ sc[d].op = "write_locked" /\ sc[d].res.status = "ok"
                        /\ sc[d].val # sc[c].val
                        /\ fs.doc = FileOf(sc[c].val)]_vars

====
